---- MODULE Spec2Model ----
(***************************************************************************)
(* A model of mini-shell: the tokenizer (tokenizer/src/lib.rs), the        *)
(* command parser and the commands' execute (shell/src/command.rs).        *)
(*                                                                         *)
(* A string is a sequence of characters; a character is a one-element      *)
(* TLA+ string, except the two-byte character U00E9 (e with acute), which  *)
(* stands for every character whose UTF-8 encoding is longer than a byte.  *)
(***************************************************************************)
EXTENDS Integers, Sequences, FiniteSets, TLC

VARIABLES
    pc,        \* where the program is: read, scan, scanned, parsed, spawning, waiting,
               \* relaying, done, locked, pushed, appended, failed, exited, scan_panic,
               \* parse_panic
    source,    \* Tokenizer.source
    tokens,    \* Tokenizer.tokens
    start,     \* Tokenizer.start
    current,   \* Tokenizer.current
    had_cmd,   \* Tokenizer.had_cmd
    via,       \* how the command came about: "none", "scan" (Shell::eval), "direct"
               \* (CommandParser::new) or "built" (the commands' constructors)
    ptokens,   \* CommandParser.tokens
    result,    \* what CommandParser::parse returned
    cwd,       \* the process's working directory
    histfile,  \* the lines of the history file
    effects,   \* what execute did, in order: help blocks, prints, loads, saves, spawns
    ret,       \* what Command::execute returned
    answers,   \* what the operating system answered to the calls of execute, stage by stage
    history,   \* Shell.history: the commands of the session's History
    children,  \* the processes a Pipeline has spawned, in order of spawning
    stage_i,   \* the stage a Pipeline's loop is at, from 1; 0 outside the loop
    lock,      \* who holds the Mutex of Shell.history: none, main or handler
    handler,   \* where the interrupt handler's thread is: idle, signalled, locked, saved
    eof        \* standard input has reached its end: every read returns zero bytes

vars == <<pc, source, tokens, start, current, had_cmd, via, ptokens, result,
          cwd, histfile, effects, ret, answers, history, children, stage_i, lock, handler,
          eof>>

(***************************************************************************)
(* Bounds of the model.                                                    *)
(***************************************************************************)
\* an input line is made of at most MaxPieces lexical pieces
MaxPieces == 4
\* a token sequence handed to CommandParser::new directly has at most MaxDirect tokens
MaxDirect == 2
\* a Pipeline built by hand has at most MaxStages stages
MaxStages == 3
\* a command built by hand has at most MaxArgs positional arguments
MaxArgs == 2
\* the session's History holds at most MaxHistory entries
MaxHistory == 2

(***************************************************************************)
(* Characters and strings.                                                 *)
(***************************************************************************)
U00E9 == "U+00E9"

Letters == {"a","b","c","d","e","f","g","h","i","j","k","l","m",
            "n","o","p","q","r","s","t","u","v","w","x","y","z"}

Digits == {"0","1","2","3","4","5","6","7","8","9"}

\* char::is_ascii_alphanumeric, on the characters the lines are made of
is_ascii_alphanumeric(c) == c \in Letters \cup Digits

\* char::is_whitespace, as str::trim uses it (the White_Space characters that
\* TLA+ can write): a superset of the four separators scan_token matches
is_whitespace(c) == c \in {" ", "\t", "\n", "\r", "\f"}

\* char::len_utf8
len_utf8(c) == IF c = U00E9 THEN 2 ELSE 1

\* the byte offset of the i-th character boundary of s, i in 0..Len(s): every
\* character is one byte long, or two
byte_off(s, i) == i + Cardinality({k \in 1..i : len_utf8(s[k]) = 2})

\* str::len: the number of bytes of the UTF-8 encoding
byte_len(s) == byte_off(s, Len(s))

\* str::is_char_boundary
is_char_boundary(s, b) == \E i \in 0..Len(s) : byte_off(s, i) = b

\* whether &s[a..b] is in range (it panics otherwise)
slice_ok(s, a, b) == a <= b /\ is_char_boundary(s, a) /\ is_char_boundary(s, b)

\* &s[a..b], byte offsets
slice(s, a, b) ==
    LET i == CHOOSE k \in 0..Len(s) : byte_off(s, k) = a
        j == CHOOSE k \in 0..Len(s) : byte_off(s, k) = b
    IN SubSeq(s, i + 1, j)

RECURSIVE trim_start(_)
trim_start(s) ==
    IF s # <<>> /\ is_whitespace(Head(s)) THEN trim_start(Tail(s)) ELSE s

RECURSIVE trim_end(_)
trim_end(s) ==
    IF s # <<>> /\ is_whitespace(s[Len(s)]) THEN trim_end(SubSeq(s, 1, Len(s) - 1)) ELSE s

\* str::trim
trim(s) == trim_end(trim_start(s))

RECURSIVE trim_start_matches(_, _)
trim_start_matches(s, c) ==
    IF s # <<>> /\ Head(s) = c THEN trim_start_matches(Tail(s), c) ELSE s

RECURSIVE trim_end_matches(_, _)
trim_end_matches(s, c) ==
    IF s # <<>> /\ s[Len(s)] = c THEN trim_end_matches(SubSeq(s, 1, Len(s) - 1), c) ELSE s

\* str::trim_matches(c)
trim_matches(s, c) == trim_end_matches(trim_start_matches(s, c), c)

(***************************************************************************)
(* The tokenizer.  Its state is the record t of the Tokenizer's fields,    *)
(* with t.panicked set once an unwrap or a slice has aborted the scan.     *)
(***************************************************************************)
Token(kind, lexeme) == [kind |-> kind, lexeme |-> lexeme]

panic(t) == [t EXCEPT !.panicked = TRUE]

\* Tokenizer::new
new_tokenizer(line) ==
    [tokens |-> <<>>, source |-> line, start |-> 0, current |-> 0,
     had_cmd |-> FALSE, panicked |-> FALSE]

\* Tokenizer::is_at_end: a character count against the byte length
is_at_end(t) == t.current >= byte_len(t.source)

\* self.source.chars().nth(self.current) is Some
nth_ok(t) == t.current < Len(t.source)

\* self.source.chars().nth(self.current).unwrap()
nth(t) == t.source[t.current + 1]

None == "<None>"

\* Tokenizer::peek aborts: not at the end by bytes, but past the last character
peek_panics(t) == ~is_at_end(t) /\ ~nth_ok(t)

\* Tokenizer::peek, where it does not abort
peek(t) == IF is_at_end(t) THEN None ELSE nth(t)

\* Tokenizer::advance (the character it returns is nth(t))
advance(t) ==
    IF t.panicked THEN t
    ELSE IF nth_ok(t) THEN [t EXCEPT !.current = @ + 1]
    ELSE panic(t)

\* the mutant of add_token: the empty text is pushed too
add_token_keeps_empty(t, kind) ==
    IF t.panicked THEN t
    ELSE IF ~slice_ok(t.source, t.start, t.current) THEN panic(t)
    ELSE [t EXCEPT !.tokens = Append(@, Token(kind, trim(slice(t.source, t.start, t.current))))]

\* Tokenizer::add_token
add_token(t, kind) ==
    IF t.panicked THEN t
    ELSE IF ~slice_ok(t.source, t.start, t.current) THEN panic(t)
    ELSE LET text == trim(slice(t.source, t.start, t.current))
         IN IF text # <<>>
            THEN [t EXCEPT !.tokens = Append(@, Token(kind, text))]
            ELSE t

RECURSIVE skip_whitespace(_)
\* Tokenizer::skip_whitespace
skip_whitespace(t) ==
    IF t.panicked THEN t
    ELSE IF peek_panics(t) THEN panic(t)
    ELSE IF peek(t) \in {" ", "\r", "\t", "\n"} THEN skip_whitespace(advance(t))
    ELSE t

RECURSIVE flag_value_loop(_, _)
\* the while loop of Tokenizer::handle_flag_value
flag_value_loop(t, in_quotes) ==
    IF t.panicked THEN t
    ELSE IF peek_panics(t) THEN panic(t)
    ELSE IF peek(t) = None THEN t
    ELSE IF peek(t) = "\"" THEN flag_value_loop(advance(t), ~in_quotes)
    ELSE IF peek(t) = " " /\ ~in_quotes THEN t
    ELSE flag_value_loop(advance(t), in_quotes)

\* Tokenizer::handle_flag_value
handle_flag_value(t) ==
    LET value_start == t.current
        t1 == flag_value_loop(t, FALSE)
    IN IF t1.panicked THEN t1
       ELSE IF ~slice_ok(t1.source, t1.start, value_start - 1) THEN panic(t1)
       ELSE IF ~slice_ok(t1.source, value_start, t1.current) THEN panic(t1)
       ELSE LET flag == trim(slice(t1.source, t1.start, value_start - 1))
                value == trim_matches(slice(t1.source, value_start, t1.current), "\"")
            IN [t1 EXCEPT !.tokens =
                    Append(@, Token("LongFlagWithValue", flag \o <<"=">> \o value))]

RECURSIVE handle_long_flag(_)
\* Tokenizer::handle_long_flag
handle_long_flag(t) ==
    IF t.panicked THEN t
    ELSE IF peek_panics(t) THEN panic(t)
    ELSE IF peek(t) = "=" THEN handle_flag_value(advance(t))
    ELSE IF is_ascii_alphanumeric(peek(t)) \/ peek(t) = "-" THEN handle_long_flag(advance(t))
    ELSE add_token(t, "LongFlag")

RECURSIVE handle_flag(_)
\* Tokenizer::handle_flag
handle_flag(t) ==
    IF t.panicked THEN t
    ELSE IF peek_panics(t) THEN panic(t)
    ELSE IF is_ascii_alphanumeric(peek(t)) THEN handle_flag(advance(t))
    ELSE add_token(t, "Flag")

RECURSIVE word_loop_takes_eq(_)
\* the mutant of word_loop: '=' is taken for a character of a word
word_loop_takes_eq(t) ==
    IF t.panicked THEN t
    ELSE IF peek_panics(t) THEN panic(t)
    ELSE IF is_ascii_alphanumeric(peek(t)) \/ peek(t) \in {"_", "/", ".", "="}
         THEN word_loop_takes_eq(advance(t))
    ELSE t

RECURSIVE word_loop(_)
\* the while loop of Tokenizer::handle_word
word_loop(t) ==
    IF t.panicked THEN t
    ELSE IF peek_panics(t) THEN panic(t)
    ELSE IF is_ascii_alphanumeric(peek(t)) \/ peek(t) \in {"_", "/", "."}
         THEN word_loop(advance(t))
    ELSE t

\* the mutant of handle_word: the command-seen flag is never set
handle_word_forgets(t) ==
    LET t1 == word_loop(t)
    IN IF t1.panicked THEN t1
       ELSE IF ~t1.had_cmd THEN add_token(t1, "Cmd")
       ELSE add_token(t1, "Arg")

\* Tokenizer::handle_word
handle_word(t) ==
    LET t1 == word_loop(t)
    IN IF t1.panicked THEN t1
       ELSE IF ~t1.had_cmd
            THEN LET t2 == add_token(t1, "Cmd")
                 IN IF t2.panicked THEN t2 ELSE [t2 EXCEPT !.had_cmd = TRUE]
       ELSE add_token(t1, "Arg")

\* Tokenizer::match_char(expected) returns true (peek has not aborted)
match_char(t, expected) == peek(t) = expected

\* Tokenizer::scan_token
scan_token(t) ==
    IF ~nth_ok(t) THEN panic(t)
    ELSE LET c == nth(t)
             t1 == advance(t)
         IN CASE c \in {" ", "\r", "\t", "\n"} -> skip_whitespace(t1)
              [] c = "-" ->
                    IF peek_panics(t1) THEN panic(t1)
                    ELSE IF match_char(t1, "-") THEN handle_long_flag(advance(t1))
                    ELSE handle_flag(t1)
              [] c = "|" ->
                    LET t2 == add_token(t1, "Pipe")
                    IN IF t2.panicked THEN t2 ELSE [t2 EXCEPT !.had_cmd = FALSE]
              [] c = "<" -> add_token(t1, "InputRedir")
              [] c = ">" -> add_token(t1, "OutputRedir")
              [] c = "&" -> add_token(t1, "Background")
              [] OTHER -> handle_word(t1)

RECURSIVE scan_tokens(_)
\* Tokenizer::scan_tokens
scan_tokens(t) ==
    IF t.panicked THEN t
    ELSE IF is_at_end(t) THEN [t EXCEPT !.tokens = Append(@, Token("Eof", <<>>))]
    ELSE scan_tokens(scan_token([t EXCEPT !.start = t.current]))

\* the Tokenizer of the state
tokenizer ==
    [tokens |-> tokens, source |-> source, start |-> start, current |-> current,
     had_cmd |-> had_cmd, panicked |-> FALSE]

(***************************************************************************)
(* Commands and the parser.  Option<String> is a string or NoString.       *)
(***************************************************************************)
NoString == <<None>>

\* struct Flag { ident: FlagIdent { short, long }, value }
Flag(short, long, value) == [short |-> short, long |-> long, value |-> value]

\* a Command: its variant (cd, history, pwd, system, pipeline) and fields
Command(variant, name) ==
    [variant |-> variant, name |-> name, args |-> <<>>, flags |-> <<>>, commands |-> <<>>]

NoCommand == Command("none", <<>>)

\* the match on the command name's lexeme in parse_single_command
new_command(lexeme) ==
    IF lexeme = <<"c","d">> THEN Command("cd", lexeme)
    ELSE IF lexeme = <<"h","i","s","t","o","r","y">> THEN Command("history", lexeme)
    ELSE IF lexeme = <<"p","w","d">> THEN Command("pwd", lexeme)
    ELSE Command("system", lexeme)

\* Command::get_args_mut / get_flags_mut are unimplemented!() for these variants
mut_panics(cmd) == cmd.variant \in {"pwd", "pipeline"}

\* the index of the first '=' of s, or 0
first_eq(s) ==
    IF \E i \in 1..Len(s) : s[i] = "="
    THEN CHOOSE i \in 1..Len(s) : s[i] = "=" /\ \A j \in 1..(i - 1) : s[j] # "="
    ELSE 0

\* lexeme.splitn(2, '=') has a second part
split_ok(s) == first_eq(s) # 0

\* parts[0] and parts[1] of lexeme.splitn(2, '=')
split_left(s) == SubSeq(s, 1, first_eq(s) - 1)

split_right(s) == SubSeq(s, first_eq(s) + 1, Len(s))

Ok(cmd) == [kind |-> "Ok", msg |-> "", arg |-> <<>>, cmd |-> cmd]

Err(msg, arg) == [kind |-> "Err", msg |-> msg, arg |-> arg, cmd |-> NoCommand]

Panicked == [kind |-> "Panic", msg |-> "", arg |-> <<>>, cmd |-> NoCommand]

NoResult == [kind |-> "None", msg |-> "", arg |-> <<>>, cmd |-> NoCommand]

\* one arm of the match on token.kind in parse_single_command's loop
push_token(cmd, token) ==
    CASE token.kind = "Arg" ->
            IF mut_panics(cmd) THEN Panicked
            ELSE Ok([cmd EXCEPT !.args = Append(@, token.lexeme)])
      [] token.kind = "Flag" ->
            IF mut_panics(cmd) THEN Panicked
            ELSE Ok([cmd EXCEPT !.flags = Append(@, Flag(token.lexeme, NoString, NoString))])
      [] token.kind = "LongFlag" ->
            IF mut_panics(cmd) THEN Panicked
            ELSE Ok([cmd EXCEPT !.flags = Append(@, Flag(NoString, token.lexeme, NoString))])
      [] token.kind = "LongFlagWithValue" ->
            IF ~split_ok(token.lexeme) \/ mut_panics(cmd) THEN Panicked
            ELSE Ok([cmd EXCEPT !.flags =
                        Append(@, Flag(NoString, split_left(token.lexeme),
                                       split_right(token.lexeme)))])
      [] OTHER -> Ok(cmd)

RECURSIVE push_tokens(_, _, _, _)
\* the loop of parse_single_command over tokens[i..end] (0-based, end excluded)
push_tokens(cmd, toks, i, end) ==
    IF i >= end THEN Ok(cmd)
    ELSE LET r == push_token(cmd, toks[i + 1])
         IN IF r.kind = "Ok" THEN push_tokens(r.cmd, toks, i + 1, end) ELSE r

\* CommandParser::parse_single_command(start, end)
parse_single_command(toks, from, end) ==
    IF from >= Len(toks) THEN Panicked
    ELSE LET cmd_token == toks[from + 1]
         IN IF cmd_token.kind # "Cmd"
            THEN Err("Expected command, got: ", cmd_token.lexeme)
            ELSE IF from + 1 > end \/ end > Len(toks) THEN Panicked
            ELSE push_tokens(new_command(cmd_token.lexeme), toks, from + 1, end)

\* the positions (0-based) of the Pipe tokens, in order
pipe_positions(toks) ==
    LET P == {i \in 0..(Len(toks) - 1) : toks[i + 1].kind = "Pipe"}
        nth_pos[k \in 1..Cardinality(P)] ==
            CHOOSE i \in P : Cardinality({j \in P : j < i}) = k - 1
    IN [k \in 1..Cardinality(P) |-> nth_pos[k]]

\* Pipeline::add_command
add_command(pipeline, cmd) == [pipeline EXCEPT !.commands = Append(@, cmd)]

\* Pipeline::new
new_pipeline == Command("pipeline", <<"p","i","p","e","l","i","n","e">>)

RECURSIVE parse_stages(_, _, _, _, _)
\* the for loop of CommandParser::parse over pipe_positions, then the last command
parse_stages(toks, pipes, k, from, pipeline) ==
    IF k > Len(pipes)
    THEN LET last == parse_single_command(toks, from, Len(toks))
         IN IF last.kind = "Ok" THEN Ok(add_command(pipeline, last.cmd)) ELSE last
    ELSE LET r == parse_single_command(toks, from, pipes[k])
         IN IF r.kind = "Ok"
            THEN parse_stages(toks, pipes, k + 1, pipes[k] + 1, add_command(pipeline, r.cmd))
            ELSE r

\* the mutant of parse: the command after the last pipe is dropped
parse_drops_last(toks) ==
    IF toks = <<>> THEN Err("No command provided", <<>>)
    ELSE IF pipe_positions(toks) = <<>> THEN parse_single_command(toks, 0, Len(toks))
    ELSE LET pipes == pipe_positions(toks)
             r == parse_stages(SubSeq(toks, 1, pipes[Len(pipes)] + 1),
                               SubSeq(pipes, 1, Len(pipes) - 1), 1, 0, new_pipeline)
         IN r

\* the mutant of parse: no test for the empty token sequence
parse_no_empty_test(toks) ==
    IF pipe_positions(toks) = <<>> THEN parse_single_command(toks, 0, Len(toks))
    ELSE parse_stages(toks, pipe_positions(toks), 1, 0, new_pipeline)

\* CommandParser::parse
parse(toks) ==
    IF toks = <<>> THEN Err("No command provided", <<>>)
    ELSE IF pipe_positions(toks) = <<>> THEN parse_single_command(toks, 0, Len(toks))
    ELSE parse_stages(toks, pipe_positions(toks), 1, 0, new_pipeline)

\* Shell::eval on a line: Tokenizer::new, scan_tokens, CommandParser::new, parse
scan_and_parse(line) ==
    LET t == scan_tokens(new_tokenizer(line))
    IN IF t.panicked THEN Panicked ELSE parse(t.tokens)

(***************************************************************************)
(* Command::execute.  The environment env is the working directory, the    *)
(* history file and the effects so far.  os is what the operating system   *)
(* answers to the command's calls: its status is "ok", "fail" (the call    *)
(* fails: chdir, current_dir, reading the history file, spawn), "nonzero"  *)
(* (the process exits with the non-zero code os.code) or "nosave" (the     *)
(* history file cannot be created); os.out and os.err are the bytes the    *)
(* process wrote to its standard output and standard error.  The parent's  *)
(* own standard streams are always writable, for println! as for           *)
(* write_all.                                                              *)
(***************************************************************************)
Effect(op, a, b) == [op |-> op, a |-> a, b |-> b]

OsAnswer(status, code, out, err) == [status |-> status, code |-> code, out |-> out, err |-> err]

Success == [ok |-> TRUE, msg |-> "", code |-> 0]

Failure(msg) == [ok |-> FALSE, msg |-> msg, code |-> 0]

\* Err(format!("... {}", code)): an error whose message embeds a status
FailureWith(msg, code) == [ok |-> FALSE, msg |-> msg, code |-> code]

NoReturn == [ok |-> FALSE, msg |-> "<none>", code |-> 0]

Env(dir, file, effs) == [cwd |-> dir, histfile |-> file, effects |-> effs]

Outcome(env, r) == [cwd |-> env.cwd, histfile |-> env.histfile, effects |-> env.effects, ret |-> r]

emit(env, eff) == [env EXCEPT !.effects = Append(@, eff)]

starts_with(s, prefix) == Len(s) >= Len(prefix) /\ SubSeq(s, 1, Len(prefix)) = prefix

\* FlagIdent { short, long }
FlagIdent(short, long) == [short |-> short, long |-> long]

\* impl TryFrom<String> for FlagIdent is Ok
try_from_ok(value) == starts_with(value, <<"-">>)

\* impl TryFrom<String> for FlagIdent, where it is Ok
try_from(value) ==
    IF starts_with(value, <<"-","-">>) THEN FlagIdent(NoString, value)
    ELSE FlagIdent(value, NoString)

\* impl ToString for FlagIdent
ident_to_string(f) ==
    IF f.short # NoString THEN f.short
    ELSE IF f.long # NoString THEN f.long
    ELSE <<>>

\* Command::get_args: PwdCommand and Pipeline answer &[]
get_args(cmd) == IF cmd.variant \in {"pwd", "pipeline"} THEN <<>> ELSE cmd.args

\* Command::get_flags: PwdCommand and Pipeline answer &[]
get_flags(cmd) == IF cmd.variant \in {"pwd", "pipeline"} THEN <<>> ELSE cmd.flags

\* Command::get_name
get_name(cmd) == cmd.name

\* Command::get_flag(flag).is_some()
get_flag_is_some(cmd, flag) ==
    /\ try_from_ok(flag)
    /\ \E i \in 1..Len(get_flags(cmd)) :
          FlagIdent(get_flags(cmd)[i].short, get_flags(cmd)[i].long) = try_from(flag)

HELP == <<"-","-","h","e","l","p">>

H == <<"-","h">>

CLEAR == <<"-","-","c","l","e","a","r">>

C == <<"-","c">>

\* Command::print_help
print_help(cmd, env) == emit(env, Effect("help", get_name(cmd), <<>>))

\* the mutant of cd_execute_impl: the last argument is the path, not the first
cd_execute_impl_last_arg(cmd, env, os) ==
    IF Len(cmd.args) = 0 THEN Outcome(env, Failure("No path provided"))
    ELSE IF os.status = "fail" THEN Outcome(env, Failure("os error"))
    ELSE Outcome([emit(env, Effect("chdir", cmd.args[Len(cmd.args)], <<>>))
                     EXCEPT !.cwd = cmd.args[Len(cmd.args)]],
                 Success)

\* the mutant of cd_execute_impl: without a path the directory changes to the home
cd_execute_impl_default_dir(cmd, env, os) ==
    LET path == IF Len(cmd.args) = 0 THEN <<"~">> ELSE cmd.args[1]
    IN IF os.status = "fail" THEN Outcome(env, Failure("os error"))
       ELSE Outcome([emit(env, Effect("chdir", path, <<>>)) EXCEPT !.cwd = path], Success)

\* ChangeDirCommand::execute_impl; the working directory is written as the
\* path that was given to set_current_dir
cd_execute_impl(cmd, env, os) ==
    IF Len(cmd.args) = 0 THEN Outcome(env, Failure("No path provided"))
    ELSE IF os.status = "fail" THEN Outcome(env, Failure("os error"))
    ELSE Outcome([emit(env, Effect("chdir", cmd.args[1], <<>>)) EXCEPT !.cwd = cmd.args[1]],
                 Success)

\* PwdCommand::execute_impl
pwd_execute_impl(cmd, env, os) ==
    IF os.status = "fail" THEN Outcome(env, Failure("os error"))
    ELSE Outcome(emit(env, Effect("print", env.cwd, <<>>)), Success)

\* the mutant of print_entries: next() takes the entries from the front
print_entries_from_front(env, commands) ==
    LET printed == [i \in 1..Len(commands) |-> Effect("print", commands[i], <<>>)]
    IN [env EXCEPT !.effects = @ \o printed]

RECURSIVE print_entries(_, _)
\* for command in history { println!(command) }: next() pops from the end
print_entries(env, commands) ==
    IF commands = <<>> THEN env
    ELSE print_entries(emit(env, Effect("print", commands[Len(commands)], <<>>)),
                       SubSeq(commands, 1, Len(commands) - 1))

\* the history file when there is none
NoFile == << <<None>> >>

\* the History that History::load_from_disk returns, where reading does not fail
loaded(env) == IF env.histfile = NoFile THEN <<>> ELSE env.histfile

\* History::load_from_disk, where reading does not fail
load_from_disk(env) ==
    IF env.histfile = NoFile THEN emit(env, Effect("no history file", <<>>, <<>>))
    ELSE emit(env, Effect("load", <<>>, env.histfile))

\* the mutant of save: the file is opened for appending, not truncated
save_appends(env, commands, os) ==
    IF os.status = "nosave" THEN emit(env, Effect("save failed", <<>>, <<>>))
    ELSE [emit(env, Effect("save", <<>>, commands)) EXCEPT !.histfile = loaded(env) \o commands]

\* History::save of the entries commands
save(env, commands, os) ==
    IF os.status = "nosave" THEN emit(env, Effect("save failed", <<>>, <<>>))
    ELSE [emit(env, Effect("save", <<>>, commands)) EXCEPT !.histfile = commands]

\* HistoryCommand::execute_impl
history_execute_impl(cmd, env, os) ==
    IF os.status = "fail" THEN Outcome(env, Failure("os error"))
    ELSE LET env1 == load_from_disk(env)
         IN IF get_flag_is_some(cmd, CLEAR) \/ get_flag_is_some(cmd, C)
            THEN Outcome(save(load_from_disk(env1), <<>>, os), Success)
            ELSE Outcome(print_entries(env1, loaded(env1)), Success)

\* flag.ident.to_string() + "=" + value, or flag.ident.to_string()
render_flag(f) ==
    IF f.value # NoString
    THEN ident_to_string(FlagIdent(f.short, f.long)) \o <<"=">> \o f.value
    ELSE ident_to_string(FlagIdent(f.short, f.long))

\* the mutant of system_args: the flags come before the positional arguments
system_args_flags_first(cmd) ==
    [i \in 1..Len(cmd.flags) |-> render_flag(cmd.flags[i])] \o cmd.args

\* the argument list SystemCommand::execute_impl builds
system_args(cmd) == cmd.args \o [i \in 1..Len(cmd.flags) |-> render_flag(cmd.flags[i])]

\* the relay of the captured output: a non-empty capture is written to the
\* parent's stream of the same name
relay(env, stream, bytes) ==
    IF bytes # <<>> THEN emit(env, Effect(stream, bytes, <<>>)) ELSE env

\* the mutant of system_execute_impl: the exit status is tested before the relay
system_execute_impl_no_relay_on_failure(cmd, env, os) ==
    IF os.status = "fail" THEN Outcome(env, Failure("os error"))
    ELSE LET env1 == emit(emit(env, Effect("spawn", cmd.name, system_args(cmd))),
                          Effect("wait", cmd.name, <<>>))
         IN IF os.status = "nonzero"
            THEN Outcome(env1, FailureWith("Command failed with exit code", os.code))
            ELSE Outcome(relay(relay(env1, "stdout", os.out), "stderr", os.err), Success)

\* SystemCommand::execute_impl
system_execute_impl(cmd, env, os) ==
    IF os.status = "fail" THEN Outcome(env, Failure("os error"))
    ELSE LET env1 == emit(emit(env, Effect("spawn", cmd.name, system_args(cmd))),
                          Effect("wait", cmd.name, <<>>))
             env2 == relay(relay(env1, "stdout", os.out), "stderr", os.err)
         IN IF os.status = "nonzero"
            THEN Outcome(env2, FailureWith("Command failed with exit code", os.code))
            ELSE Outcome(env2, Success)

\* the exit codes of a process that fails
ExitCodes == {1, 2}

\* what a process may write to one of its streams
Captures == {<<>>, <<"o">>}

\* what the operating system may answer to a command of the variant, the
\* processes exiting with the codes and writing the captures given
OsAnswers(cmd, codes, captures) ==
    CASE cmd.variant = "system" ->
            {OsAnswer("fail", 0, <<>>, <<>>)}
              \cup {OsAnswer("ok", 0, out, err) : out \in captures, err \in captures}
              \cup UNION {{OsAnswer("nonzero", code, out, err) : out \in captures, err \in captures}
                             : code \in codes}
      [] cmd.variant = "history" ->
            {OsAnswer(status, 0, <<>>, <<>>) : status \in {"ok", "fail", "nosave"}}
      [] OTHER ->
            {OsAnswer(status, 0, <<>>, <<>>) : status \in {"ok", "fail"}}

\* the execute_impl of the four variants that are not Pipeline
stage_execute_impl(cmd, env, os) ==
    CASE cmd.variant = "cd" -> cd_execute_impl(cmd, env, os)
      [] cmd.variant = "pwd" -> pwd_execute_impl(cmd, env, os)
      [] cmd.variant = "history" -> history_execute_impl(cmd, env, os)
      [] OTHER -> system_execute_impl(cmd, env, os)

\* the mutant of stage_execute: the variant's logic runs before the help test
stage_execute_help_last(cmd, env, os) ==
    LET o == stage_execute_impl(cmd, env, os)
    IN IF get_flag_is_some(cmd, HELP) \/ get_flag_is_some(cmd, H)
       THEN Outcome(print_help(cmd, Env(o.cwd, o.histfile, o.effects)), Success)
       ELSE o

\* Command::execute of the four variants that are not Pipeline
stage_execute(cmd, env, os) ==
    IF get_flag_is_some(cmd, HELP) \/ get_flag_is_some(cmd, H)
    THEN Outcome(print_help(cmd, env), Success)
    ELSE stage_execute_impl(cmd, env, os)

\* the match on cmd.get_name() in Pipeline::execute_impl
is_builtin_name(name) ==
    name \in {<<"c","d">>, <<"p","w","d">>, <<"h","i","s","t","o","r","y">>}

RECURSIVE spawn_all_ignores_status(_, _, _, _)
\* the mutant of spawn_all: the status of the last process is not looked at
spawn_all_ignores_status(commands, i, env, oss) ==
    IF i > Len(commands)
    THEN Outcome(emit(env, Effect("wait", get_name(commands[Len(commands)]), <<>>)), Success)
    ELSE IF oss[i].status = "fail" THEN Outcome(env, Failure("os error"))
    ELSE spawn_all_ignores_status(commands, i + 1,
                   emit(env, Effect("spawn", get_name(commands[i]), get_args(commands[i]))),
                   oss)

RECURSIVE spawn_all_checks_every(_, _, _, _)
\* the mutant of spawn_all: every process is waited for and its status tested
spawn_all_checks_every(commands, i, env, oss) ==
    IF i > Len(commands) THEN Outcome(env, Success)
    ELSE IF oss[i].status = "fail" THEN Outcome(env, Failure("os error"))
    ELSE LET env1 == emit(emit(env, Effect("spawn", get_name(commands[i]), get_args(commands[i]))),
                          Effect("wait", get_name(commands[i]), <<>>))
         IN IF oss[i].status = "nonzero"
            THEN Outcome(env1, FailureWith("Pipeline failed with status", oss[i].code))
            ELSE spawn_all_checks_every(commands, i + 1, env1, oss)

RECURSIVE spawn_all(_, _, _, _)
\* the loop of Pipeline::execute_impl that spawns the processes, then the wait
\* for the last one; oss[i] is the operating system's answer for stage i
spawn_all(commands, i, env, oss) ==
    IF i > Len(commands)
    THEN LET env1 == emit(env, Effect("wait", get_name(commands[Len(commands)]), <<>>))
         IN IF oss[Len(commands)].status = "nonzero"
            THEN Outcome(env1, FailureWith("Pipeline failed with status",
                                           oss[Len(commands)].code))
            ELSE Outcome(env1, Success)
    ELSE IF oss[i].status = "fail" THEN Outcome(env, Failure("os error"))
    ELSE spawn_all(commands, i + 1,
                   emit(env, Effect("spawn", get_name(commands[i]), get_args(commands[i]))),
                   oss)

\* the mutant of Pipeline::execute_impl: the name of the last command is not tested
pipeline_execute_impl_skips_last(cmd, env, oss) ==
    IF Len(cmd.commands) = 0 THEN Outcome(env, Success)
    ELSE IF Len(cmd.commands) = 1 THEN stage_execute(cmd.commands[1], env, oss[1])
    ELSE IF \E i \in 1..(Len(cmd.commands) - 1) : is_builtin_name(get_name(cmd.commands[i]))
         THEN Outcome(env, Failure("Built-in commands cannot be used in pipes"))
    ELSE spawn_all(cmd.commands, 1, env, oss)

\* Pipeline::execute_impl
pipeline_execute_impl(cmd, env, oss) ==
    IF Len(cmd.commands) = 0 THEN Outcome(env, Success)
    ELSE IF Len(cmd.commands) = 1 THEN stage_execute(cmd.commands[1], env, oss[1])
    ELSE IF \E i \in 1..Len(cmd.commands) : is_builtin_name(get_name(cmd.commands[i]))
         THEN Outcome(env, Failure("Built-in commands cannot be used in pipes"))
    ELSE spawn_all(cmd.commands, 1, env, oss)

\* what the operating system may answer to the process of a pipeline's stage
StageAnswers(codes) ==
    {OsAnswer("ok", 0, <<>>, <<>>), OsAnswer("fail", 0, <<>>, <<>>)}
      \cup {OsAnswer("nonzero", code, <<>>, <<>>) : code \in codes}

\* what the operating system may answer to each stage of the command
OsAnswerSeqs(cmd, codes, captures) ==
    IF cmd.variant = "pipeline"
    THEN IF Len(cmd.commands) = 1
         THEN {<<os>> : os \in OsAnswers(cmd.commands[1], codes, captures)}
         ELSE [1..Len(cmd.commands) -> StageAnswers(codes)]
    ELSE {<<os>> : os \in OsAnswers(cmd, codes, captures)}

\* Command::execute
execute(cmd, env, oss) ==
    IF cmd.variant = "pipeline"
    THEN IF get_flag_is_some(cmd, HELP) \/ get_flag_is_some(cmd, H)
         THEN Outcome(print_help(cmd, env), Success)
         ELSE pipeline_execute_impl(cmd, env, oss)
    ELSE stage_execute(cmd, env, oss[1])

RECURSIVE join(_, _)
\* [String]::join(sep)
join(strs, sep) ==
    IF strs = <<>> THEN <<>>
    ELSE IF Len(strs) = 1 THEN strs[1]
    ELSE strs[1] \o sep \o join(Tail(strs), sep)

\* impl ToString for dyn Command
to_string(cmd) ==
    get_name(cmd) \o <<" ">> \o join(get_args(cmd), <<" ">>)
        \o join([i \in 1..Len(get_flags(cmd)) |->
                    ident_to_string(FlagIdent(get_flags(cmd)[i].short, get_flags(cmd)[i].long))],
                <<" ">>)

\* a process the Pipeline has spawned for its stage: the program and its
\* arguments, the bytes the parent has written to its standard input (NoString:
\* none), whether it is running, exited (not waited for) or reaped (waited
\* for), its exit code and the bytes read from its standard output
Child(stage, name, args, fed) ==
    [stage |-> stage, name |-> name, args |-> args, fed |-> fed,
     state |-> "running", code |-> 0, out |-> <<>>]

\* the program and the arguments the inherent Pipeline::execute spawns for a
\* command: a built-in goes to `sh -c "name args"`
relay_program(cmd) ==
    IF is_builtin_name(get_name(cmd))
    THEN [name |-> <<"s","h">>,
          args |-> << <<"-","c">>, get_name(cmd) \o <<" ">> \o join(get_args(cmd), <<" ">>) >>]
    ELSE [name |-> get_name(cmd), args |-> get_args(cmd)]

\* the mutant of relay_stage: the process that was fed is the one that is
\* read from and waited for, and no second one is spawned
relay_stage_one_process(commands, i, kids, effs, feed, main, out, code) ==
    LET prog == relay_program(commands[i])
        is_last == i = Len(commands)
        data == IF i > 1 THEN kids[Len(kids)].out ELSE NoString
        spawned == Append(effs, Effect("spawn", prog.name, prog.args))
        written == IF i > 1 THEN Append(spawned, Effect("stdin", prog.name, data)) ELSE spawned
        waited == Append(IF is_last THEN written ELSE Append(written, Effect("read", prog.name, out)),
                         Effect("wait", prog.name, <<>>))
        child == [Child(i, prog.name, prog.args, data) EXCEPT
                     !.state = "reaped", !.code = code, !.out = IF is_last THEN <<>> ELSE out]
    IN IF main = "fail" \/ feed = "fail"
       THEN [children |-> kids, effects |-> effs, ret |-> Failure("os error")]
       ELSE IF feed = "nowrite"
       THEN [children |-> Append(kids, Child(i, prog.name, prog.args, NoString)),
             effects |-> spawned, ret |-> Failure("os error")]
       ELSE [children |-> Append(kids, child), effects |-> waited,
             ret |-> IF code # 0 THEN FailureWith("Command failed with status", code)
                     ELSE NoReturn]

\* one turn of the loop `for i in 0..command_count` of the inherent
\* Pipeline::execute, the processes spawned so far being kids.  With the output
\* of the stage before at hand, a first process is spawned, the output is
\* written to its standard input and the process is left to itself; then the
\* program is spawned again, and it is this second process whose output is
\* read and which is waited for.  feed and main are the operating system's
\* answers to the two spawns ("fail") and to the write ("nowrite"), out and
\* code what the second process writes and how it exits.
relay_stage(commands, i, kids, effs, feed, main, out, code) ==
    LET prog == relay_program(commands[i])
        is_last == i = Len(commands)
        data == IF i > 1 THEN kids[Len(kids)].out ELSE NoString
        fed_kids == IF i > 1 THEN Append(kids, Child(i, prog.name, prog.args, data)) ELSE kids
        fed_effs == IF i > 1
                    THEN Append(Append(effs, Effect("spawn", prog.name, prog.args)),
                                Effect("stdin", prog.name, data))
                    ELSE effs
        spawned == Append(fed_effs, Effect("spawn", prog.name, prog.args))
        waited == Append(IF is_last THEN spawned ELSE Append(spawned, Effect("read", prog.name, out)),
                         Effect("wait", prog.name, <<>>))
        child == [Child(i, prog.name, prog.args, NoString) EXCEPT
                     !.state = "reaped", !.code = code, !.out = IF is_last THEN <<>> ELSE out]
    IN IF feed = "fail"
       THEN [children |-> kids, effects |-> effs, ret |-> Failure("os error")]
       ELSE IF feed = "nowrite"
       THEN [children |-> Append(kids, Child(i, prog.name, prog.args, NoString)),
             effects |-> Append(effs, Effect("spawn", prog.name, prog.args)),
             ret |-> Failure("os error")]
       ELSE IF main = "fail"
       THEN [children |-> fed_kids, effects |-> fed_effs, ret |-> Failure("os error")]
       ELSE [children |-> Append(fed_kids, child), effects |-> waited,
             ret |-> IF code # 0 THEN FailureWith("Command failed with status", code)
                     ELSE NoReturn]

(***************************************************************************)
(* The inputs.                                                             *)
(***************************************************************************)
\* the lexical pieces the lines to parse and execute are made of
Pieces ==
    { <<"c","d">>, <<"p","w","d">>, <<"h","i","s","t","o","r","y">>, <<"x">>,
      <<" ">>, <<"-","h">>, <<"-","-","h","e","l","p">>, <<"|">>, <<"=","v">>,
      <<"<">> }

\* the lexical pieces the lines to scan are made of
ScanPieces ==
    { <<"x">>, <<" ">>, <<"-">>, <<"-","-","f">>, <<"=">>, <<"|">>, <<"<">>,
      <<"\"">>, <<"\f">>, <<U00E9>> }

RECURSIVE LinesOf(_, _)
LinesOf(P, n) ==
    IF n = 0 THEN {<<>>}
    ELSE LET shorter == LinesOf(P, n - 1)
         IN shorter \cup {l \o p : l \in shorter, p \in P}

\* the lines Shell::read_line may return
Lines == LinesOf(Pieces, MaxPieces)

ScanLines == LinesOf(ScanPieces, MaxPieces)

\* the tokens a caller of CommandParser::new may build
DirectTokens ==
    { Token("Cmd", <<"x">>), Token("Cmd", <<"p","w","d">>), Token("Arg", <<"x">>),
      Token("Pipe", <<"|">>), Token("LongFlagWithValue", <<"-","-","v">>),
      Token("Eof", <<>>) }

RECURSIVE SeqsOf(_, _)
SeqsOf(S, n) ==
    IF n = 0 THEN {<<>>}
    ELSE LET shorter == SeqsOf(S, n - 1)
         IN shorter \cup {Append(q, x) : q \in shorter, x \in S}

TokenSeqs == SeqsOf(DirectTokens, MaxDirect)

\* the lexical pieces of the lines with arguments and flags
ArgPieces ==
    { <<"x">>, <<" ","a">>, <<" ","-","l">>, <<" ","-","-","f">>, <<"=","v">> }

ArgLines == LinesOf(ArgPieces, MaxPieces)

\* the lexical pieces of the lines with a long flag and its value: the flag up
\* to its '=', values bare, quoted with a space inside and half quoted, the
\* separators and the newline Shell::read_line leaves at the end of a line
ValuePieces ==
    { <<"-","-","f","=">>, <<"v">>, <<"\"">>, <<"\"","a"," ","b","\"">>, <<" ">>, <<"\t">>,
      <<"\n">> }

ValueLines == LinesOf(ValuePieces, MaxPieces)

\* the working directory and the history file the shell starts with
InitCwd == <<"/">>

InitHistfile == << <<"x">>, <<"c","d"," ","/">> >>

\* the history files: none, an empty one, one with two entries
HistFiles == {NoFile, <<>>, InitHistfile}

\* a command of one of the four variants that are not Pipeline, with the
\* arguments and flags given
WithFields(variant, name, args, flags) ==
    [Command(variant, name) EXCEPT !.args = args, !.flags = flags]

\* the flags a caller may give
BuiltFlags ==
    { <<>>, <<Flag(H, NoString, NoString)>>, <<Flag(C, NoString, NoString)>>,
      <<Flag(NoString, CLEAR, NoString)>>,
      <<Flag(<<"-","l">>, NoString, NoString), Flag(NoString, <<"-","-","f">>, <<"v">>)>> }

\* the arguments a caller may give
BuiltArgs == SeqsOf({<<"/">>, <<"a">>}, MaxArgs)

\* the commands a caller may build that are not Pipelines
StageCommands ==
    {WithFields("cd", <<"c","d">>, args, flags) : args \in BuiltArgs, flags \in BuiltFlags}
      \cup {WithFields("history", <<"h","i","s","t","o","r","y">>, <<>>, flags) : flags \in BuiltFlags}
      \cup {Command("pwd", <<"p","w","d">>)}
      \cup {WithFields("system", <<"x">>, args, flags) : args \in BuiltArgs, flags \in BuiltFlags}

\* the commands a caller may put into a Pipeline
PipedCommands ==
    { Command("cd", <<"c","d">>), Command("pwd", <<"p","w","d">>),
      Command("history", <<"h","i","s","t","o","r","y">>),
      Command("system", <<"x">>),
      WithFields("system", <<"y">>, <<<<"a">>>>, <<Flag(<<"-","l">>, NoString, NoString)>>) }

\* the Pipelines a caller may build
Pipelines == {[new_pipeline EXCEPT !.commands = cs] : cs \in SeqsOf(PipedCommands, MaxStages)}

\* the commands a caller may build
Commands == StageCommands \cup Pipelines

\* the Pipelines of two or more commands
LongPipelines == {p \in Pipelines : Len(p.commands) >= 2}

\* lines of two and of three stages, with and without a built-in
PipeLines ==
    { <<"x","|","x">>, <<"x"," ","-","l","|","y"," ","a">>, <<"x","|","y","|","x">>,
      <<"x","|","p","w","d">> }

\* the lines the read-eval loop reads: commands that succeed or may fail, a
\* pipeline, lines that do not parse, the empty line of an end of input, a
\* line on which the parser aborts, and exit and quit
LoopLines ==
    { <<"x","\n">>, <<"c","d"," ","a","\n">>, <<"c","d","\n">>,
      <<"h","i","s","t","o","r","y"," ","-","c","\n">>,
      <<"x"," ","|"," ","x","\n">>, <<"|","\n">>, <<"-","l","\n">>, <<>>,
      <<"p","w","d"," ","a","\n">>, <<"e","x","i","t","\n">>, <<" ","q","u","i","t">> }

\* the lines the loop reads while Ctrl+C may arrive: an external command, a
\* command that fails, a pipeline, a line that does not parse, and exit
IntrLines ==
    { <<"x","\n">>, <<"c","d","\n">>, <<"x","|","x","\n">>, <<"|","\n">>,
      <<"e","x","i","t","\n">> }

(***************************************************************************)
(* The state machine.                                                      *)
(***************************************************************************)
Init ==
    /\ pc = "read"
    /\ source = <<>>
    /\ tokens = <<>>
    /\ start = 0
    /\ current = 0
    /\ had_cmd = FALSE
    /\ via = "none"
    /\ ptokens = <<>>
    /\ result = NoResult
    /\ cwd = InitCwd
    /\ histfile = InitHistfile
    /\ effects = <<>>
    /\ ret = NoReturn
    /\ answers = <<>>
    /\ history = <<>>
    /\ children = <<>>
    /\ stage_i = 0
    /\ lock = "none"
    /\ handler = "idle"
    /\ eof = FALSE

\* the same, the history file being absent, empty or holding entries
InitHist ==
    /\ pc = "read"
    /\ source = <<>>
    /\ tokens = <<>>
    /\ start = 0
    /\ current = 0
    /\ had_cmd = FALSE
    /\ via = "none"
    /\ ptokens = <<>>
    /\ result = NoResult
    /\ cwd = InitCwd
    /\ histfile \in HistFiles
    /\ effects = <<>>
    /\ ret = NoReturn
    /\ answers = <<>>
    /\ history = <<>>
    /\ children = <<>>
    /\ stage_i = 0
    /\ lock = "none"
    /\ handler = "idle"
    /\ eof = FALSE

EXIT == <<"e","x","i","t">>

QUIT == <<"q","u","i","t">>

\* Shell::eval reads a line that is not exit or quit and builds its Tokenizer
ReadLine(lines) ==
    /\ pc = "read"
    /\ ~eof
    /\ Len(history) < MaxHistory
    /\ \E line \in lines :
          /\ trim(line) \notin {EXIT, QUIT}
          /\ \E t \in {new_tokenizer(line)} :
                /\ source' = t.source
                /\ tokens' = t.tokens
                /\ start' = t.start
                /\ current' = t.current
                /\ had_cmd' = t.had_cmd
    /\ pc' = "scan"
    /\ via' = "scan"
    /\ UNCHANGED <<ptokens, result, cwd, histfile, effects, ret, answers, history,
                   children, stage_i, lock, handler, eof>>

\* one turn of the while loop of Tokenizer::scan_tokens
ScanToken ==
    /\ pc = "scan"
    /\ ~is_at_end(tokenizer)
    /\ \E t \in {scan_token([tokenizer EXCEPT !.start = current])} :
          /\ tokens' = t.tokens
          /\ start' = t.start
          /\ current' = t.current
          /\ had_cmd' = t.had_cmd
          /\ pc' = IF t.panicked THEN "scan_panic" ELSE "scan"
    /\ UNCHANGED <<source, via, ptokens, result, cwd, histfile, effects, ret, answers, history,
                   children, stage_i, lock, handler, eof>>

\* the end of Tokenizer::scan_tokens: the Eof token
ScanEnd ==
    /\ pc = "scan"
    /\ is_at_end(tokenizer)
    /\ tokens' = Append(tokens, Token("Eof", <<>>))
    /\ pc' = "scanned"
    /\ UNCHANGED <<source, start, current, had_cmd, via, ptokens, result,
                   cwd, histfile, effects, ret, answers, history,
                   children, stage_i, lock, handler, eof>>

\* Shell::eval: CommandParser::new(tokenizer.tokens), then parse
ParseScanned ==
    /\ pc = "scanned"
    /\ ptokens' = tokens
    /\ \E r \in {parse(tokens)} :
          /\ result' = r
          /\ pc' = IF r.kind = "Panic" THEN "parse_panic" ELSE "parsed"
    /\ UNCHANGED <<source, tokens, start, current, had_cmd, via, cwd, histfile, effects, ret,
                   answers, history,
                   children, stage_i, lock, handler, eof>>

\* a caller of the library: CommandParser::new(tokens), then parse
ParseDirect ==
    /\ pc = "read"
    /\ \E toks \in TokenSeqs :
          /\ ptokens' = toks
          /\ \E r \in {parse(toks)} :
                /\ result' = r
                /\ pc' = IF r.kind = "Panic" THEN "parse_panic" ELSE "parsed"
    /\ via' = "direct"
    /\ UNCHANGED <<source, tokens, start, current, had_cmd, cwd, histfile, effects, ret,
                   answers, history,
                   children, stage_i, lock, handler, eof>>

\* a caller of the library: a command made with the constructors and the
\* public fields of the variants, and Pipeline::add_command
BuildCommand(cmds) ==
    /\ pc = "read"
    /\ \E cmd \in cmds : result' = Ok(cmd)
    /\ pc' = "parsed"
    /\ via' = "built"
    /\ UNCHANGED <<source, tokens, start, current, had_cmd, ptokens, cwd, histfile, effects,
                   ret, answers, history,
                   children, stage_i, lock, handler, eof>>

\* cmd.execute() on the command parse returned, the processes exiting with
\* the codes and writing the captures given
Execute(codes, captures) ==
    /\ pc = "parsed"
    /\ result.kind = "Ok"
    /\ \E oss \in OsAnswerSeqs(result.cmd, codes, captures) :
          /\ answers' = oss
          /\ \E o \in {execute(result.cmd, Env(cwd, histfile, effects), oss)} :
                /\ cwd' = o.cwd
                /\ histfile' = o.histfile
                /\ effects' = o.effects
                /\ ret' = o.ret
    /\ pc' = "done"
    /\ UNCHANGED <<source, tokens, start, current, had_cmd, via, ptokens, result, history,
                   children, stage_i, lock, handler, eof>>

\* the mutant of ReportParseError: the line is appended to the history all the same
ReportParseError_appends ==
    /\ pc = "parsed"
    /\ result.kind = "Err"
    /\ effects' = Append(effects, Effect("print error", result.msg, result.arg))
    /\ history' = Append(history, trim(source))
    /\ pc' = "failed"
    /\ UNCHANGED <<source, tokens, start, current, had_cmd, via, ptokens, result,
                   cwd, histfile, ret, answers,
                   children, stage_i, lock, handler, eof>>

\* Shell::eval: parse returned Err(e), the error is printed
ReportParseError ==
    /\ pc = "parsed"
    /\ result.kind = "Err"
    /\ effects' = Append(effects, Effect("print error", result.msg, result.arg))
    /\ pc' = "failed"
    /\ UNCHANGED <<source, tokens, start, current, had_cmd, via, ptokens, result,
                   cwd, histfile, ret, answers, history,
                   children, stage_i, lock, handler, eof>>

\* Shell::eval: execute has returned; its error, if any, is printed, and the
\* command's text is appended to the session's History
AppendHistory ==
    /\ pc = "done"
    /\ effects' = IF ret.ok THEN effects
                  ELSE Append(effects, Effect("print error", <<>>, <<>>))
    /\ history' = Append(history, to_string(result.cmd))
    /\ pc' = "appended"
    /\ UNCHANGED <<source, tokens, start, current, had_cmd, via, ptokens, result,
                   cwd, histfile, ret, answers,
                   children, stage_i, lock, handler, eof>>

\* Shell::eval: the prompt is printed and the loop turns; the tokenizer, the
\* parser, the command and its result are dropped
Prompt ==
    /\ pc \in {"appended", "failed"}
    /\ pc' = "read"
    /\ source' = <<>>
    /\ tokens' = <<>>
    /\ start' = 0
    /\ current' = 0
    /\ had_cmd' = FALSE
    /\ via' = "none"
    /\ ptokens' = <<>>
    /\ result' = NoResult
    /\ effects' = <<>>
    /\ ret' = NoReturn
    /\ answers' = <<>>
    /\ UNCHANGED <<cwd, histfile, history,
                   children, stage_i, lock, handler, eof>>

\* Shell::eval reads exit or quit: with the lock of the session's History held,
\* the History is saved; then eval returns
Exit(lines) ==
    /\ pc = "read"
    /\ ~eof
    /\ lock = "none"
    /\ \E line \in lines :
          /\ trim(line) \in {EXIT, QUIT}
          /\ source' = line
    /\ \E status \in {"ok", "nosave"} :
          /\ answers' = <<OsAnswer(status, 0, <<>>, <<>>)>>
          /\ \E env \in {save(Env(cwd, histfile, effects), history, answers'[1])} :
                /\ histfile' = env.histfile
                /\ effects' = env.effects
    /\ pc' = "exited"
    /\ UNCHANGED <<tokens, start, current, had_cmd, via, ptokens, result, cwd, ret, history,
                   children, stage_i, lock, handler, eof>>

\* Pipeline::execute_impl up to its loop of spawns: the tests of the number of
\* commands and of the names; the empty and the one-command Pipeline are
\* executed by Execute
BeginPipeline ==
    /\ pc = "parsed"
    /\ result.kind = "Ok"
    /\ result.cmd.variant = "pipeline"
    /\ Len(result.cmd.commands) >= 2
    /\ IF \E i \in 1..Len(result.cmd.commands) :
              is_builtin_name(get_name(result.cmd.commands[i]))
       THEN /\ ret' = Failure("Built-in commands cannot be used in pipes")
            /\ pc' = "done"
            /\ stage_i' = 0
       ELSE /\ ret' = ret
            /\ pc' = "spawning"
            /\ stage_i' = 1
    /\ children' = <<>>
    /\ UNCHANGED <<source, tokens, start, current, had_cmd, via, ptokens, result,
                   cwd, histfile, effects, answers, history, lock, handler, eof>>

\* the mutant of SpawnStage: the process of the stage before is waited for
\* before the next one is spawned
SpawnStage_waits_previous ==
    /\ pc = "spawning"
    /\ stage_i <= Len(result.cmd.commands)
    /\ stage_i > 1 => children[stage_i - 1].state = "exited"
    /\ \E status \in {"ok", "fail"} :
          /\ answers' = Append(answers, OsAnswer(status, 0, <<>>, <<>>))
          /\ IF status = "fail"
             THEN /\ ret' = Failure("os error")
                  /\ pc' = "done"
                  /\ UNCHANGED <<children, effects, stage_i>>
             ELSE /\ children' =
                        Append([i \in 1..Len(children) |->
                                   [children[i] EXCEPT !.state = "reaped"]],
                               Child(stage_i, get_name(result.cmd.commands[stage_i]),
                                     get_args(result.cmd.commands[stage_i]), NoString))
                  /\ effects' = Append(effects,
                                       Effect("spawn", get_name(result.cmd.commands[stage_i]),
                                              get_args(result.cmd.commands[stage_i])))
                  /\ stage_i' = stage_i + 1
                  /\ UNCHANGED <<pc, ret>>
    /\ UNCHANGED <<source, tokens, start, current, had_cmd, via, ptokens, result,
                   cwd, histfile, history, lock, handler, eof>>

\* one turn of the loop `for (i, mut process) in handles`: process.spawn()?,
\* the standard input of the process being the standard output of the one
\* before; the Child of the stage before is dropped, which neither waits for
\* the process nor ends it
SpawnStage ==
    /\ pc = "spawning"
    /\ stage_i <= Len(result.cmd.commands)
    /\ \E status \in {"ok", "fail"} :
          /\ answers' = Append(answers, OsAnswer(status, 0, <<>>, <<>>))
          /\ IF status = "fail"
             THEN /\ ret' = Failure("os error")
                  /\ pc' = "done"
                  /\ UNCHANGED <<children, effects, stage_i>>
             ELSE /\ children' =
                        Append(children,
                               Child(stage_i, get_name(result.cmd.commands[stage_i]),
                                     get_args(result.cmd.commands[stage_i]), NoString))
                  /\ effects' = Append(effects,
                                       Effect("spawn", get_name(result.cmd.commands[stage_i]),
                                              get_args(result.cmd.commands[stage_i])))
                  /\ stage_i' = stage_i + 1
                  /\ UNCHANGED <<pc, ret>>
    /\ UNCHANGED <<source, tokens, start, current, had_cmd, via, ptokens, result,
                   cwd, histfile, history, lock, handler, eof>>

\* last_child.wait()? returns once the last process has exited, then the test
\* of its status
WaitLast ==
    /\ pc = "spawning"
    /\ stage_i = Len(result.cmd.commands) + 1
    /\ children[Len(children)].state = "exited"
    /\ children' = [children EXCEPT ![Len(children)].state = "reaped"]
    /\ effects' = Append(effects, Effect("wait", children[Len(children)].name, <<>>))
    /\ ret' = IF children[Len(children)].code # 0
              THEN FailureWith("Pipeline failed with status", children[Len(children)].code)
              ELSE Success
    /\ pc' = "done"
    /\ UNCHANGED <<source, tokens, start, current, had_cmd, via, ptokens, result,
                   cwd, histfile, answers, history, stage_i, lock, handler, eof>>

\* the operating system: a running process exits, with status zero or one of
\* the codes
ChildExits(codes) ==
    /\ \E i \in 1..Len(children) :
          /\ children[i].state = "running"
          /\ \E code \in {0} \cup codes :
                children' = [children EXCEPT ![i].state = "exited", ![i].code = code]
    /\ UNCHANGED <<pc, source, tokens, start, current, had_cmd, via, ptokens, result,
                   cwd, histfile, effects, ret, answers, history, stage_i, lock, handler, eof>>

\* a caller of the library calls the inherent Pipeline::execute on a Pipeline
\* of two or more commands
BeginRelay ==
    /\ pc = "parsed"
    /\ via = "built"
    /\ result.kind = "Ok"
    /\ result.cmd.variant = "pipeline"
    /\ Len(result.cmd.commands) >= 2
    /\ pc' = "relaying"
    /\ stage_i' = 1
    /\ children' = <<>>
    /\ UNCHANGED <<source, tokens, start, current, had_cmd, via, ptokens, result,
                   cwd, histfile, effects, ret, answers, history, lock, handler, eof>>

\* one turn of the loop of the inherent Pipeline::execute; on an early return
\* the command taken out of self.commands is not put back, "dummy" stays
RelayStage(codes, captures) ==
    /\ pc = "relaying"
    /\ \E feed \in (IF stage_i > 1 THEN {"ok", "fail", "nowrite"} ELSE {"ok"}),
          main \in {"ok", "fail"},
          out \in (IF stage_i = Len(result.cmd.commands) THEN {<<>>} ELSE captures),
          code \in {0} \cup codes :
          /\ answers' = Append(answers,
                               IF feed = "ok" /\ main = "ok"
                               THEN OsAnswer(IF code = 0 THEN "ok" ELSE "nonzero", code, out, <<>>)
                               ELSE OsAnswer("fail", 0, <<>>, <<>>))
          /\ \E o \in {relay_stage(result.cmd.commands, stage_i, children, effects,
                                    feed, main, out, code)} :
                /\ children' = o.children
                /\ effects' = o.effects
                /\ IF o.ret # NoReturn
                   THEN /\ ret' = o.ret
                        /\ pc' = "done"
                        /\ result' = [result EXCEPT !.cmd.commands[stage_i] =
                                          Command("system", <<"d","u","m","m","y">>)]
                        /\ stage_i' = stage_i
                   ELSE /\ ret' = IF stage_i = Len(result.cmd.commands) THEN Success ELSE ret
                        /\ pc' = IF stage_i = Len(result.cmd.commands) THEN "done" ELSE "relaying"
                        /\ result' = result
                        /\ stage_i' = stage_i + 1
    /\ UNCHANGED <<source, tokens, start, current, had_cmd, via, ptokens,
                   cwd, histfile, history, lock, handler, eof>>

\* standard input reaches its end, wherever the loop is: from now on
\* stdin().read_line reads zero bytes
CloseInput ==
    /\ ~eof
    /\ pc \notin {"exited", "scan_panic", "parse_panic"}
    /\ eof' = TRUE
    /\ UNCHANGED <<pc, source, tokens, start, current, had_cmd, via, ptokens, result, cwd,
                   histfile, effects, ret, answers, history, children, stage_i, lock, handler>>

\* the mutant of ReadEof: the loop ends when a read returns zero bytes
ReadEof_returns ==
    /\ pc = "read"
    /\ eof
    /\ pc' = "exited"
    /\ UNCHANGED <<source, tokens, start, current, had_cmd, via, ptokens, result, cwd,
                   histfile, effects, ret, answers, history, children, stage_i, lock, handler,
                   eof>>

\* Shell::eval reads at the end of standard input: read_line answers Some of
\* the empty line, which is not exit or quit, and its Tokenizer is built
ReadEof ==
    /\ pc = "read"
    /\ eof
    /\ \E t \in {new_tokenizer(<<>>)} :
          /\ source' = t.source
          /\ tokens' = t.tokens
          /\ start' = t.start
          /\ current' = t.current
          /\ had_cmd' = t.had_cmd
    /\ pc' = "scan"
    /\ via' = "scan"
    /\ UNCHANGED <<ptokens, result, cwd, histfile, effects, ret, answers, history,
                   children, stage_i, lock, handler, eof>>

\* cmd.execute() on a command that is not a Pipeline of two or more commands
ExecuteShort(codes, captures) ==
    /\ ~(result.cmd.variant = "pipeline" /\ Len(result.cmd.commands) >= 2)
    /\ Execute(codes, captures)

\* the mutant of AcquireHistory: the History is reached without its lock
AcquireHistory_no_lock ==
    /\ pc = "done"
    /\ effects' = IF ret.ok THEN effects
                  ELSE Append(effects, Effect("print error", <<>>, <<>>))
    /\ pc' = "locked"
    /\ UNCHANGED <<source, tokens, start, current, had_cmd, via, ptokens, result,
                   cwd, histfile, ret, answers, history, children, stage_i, lock, handler, eof>>

\* Shell::eval: execute has returned; its error, if any, is printed, and
\* self.history.lock() returns once the lock is free
AcquireHistory ==
    /\ pc = "done"
    /\ lock = "none"
    /\ lock' = "main"
    /\ effects' = IF ret.ok THEN effects
                  ELSE Append(effects, Effect("print error", <<>>, <<>>))
    /\ pc' = "locked"
    /\ UNCHANGED <<source, tokens, start, current, had_cmd, via, ptokens, result,
                   cwd, histfile, ret, answers, history, children, stage_i, handler, eof>>

\* Shell::eval: history.append(cmd.to_string()), the lock held
AppendLocked ==
    /\ pc = "locked"
    /\ history' = Append(history, to_string(result.cmd))
    /\ pc' = "pushed"
    /\ UNCHANGED <<source, tokens, start, current, had_cmd, via, ptokens, result,
                   cwd, histfile, effects, ret, answers, children, stage_i, lock, handler, eof>>

\* Shell::eval: the guard of the lock is dropped at the end of the `if let`
ReleaseHistory ==
    /\ pc = "pushed"
    /\ lock' = "none"
    /\ pc' = "appended"
    /\ UNCHANGED <<source, tokens, start, current, had_cmd, via, ptokens, result,
                   cwd, histfile, effects, ret, answers, history, children, stage_i, handler,
                   eof>>

\* Ctrl+C: the signal arrives while the process runs, and the handler set in
\* Shell::new starts on its own thread
Interrupt ==
    /\ handler = "idle"
    /\ pc \notin {"exited", "scan_panic", "parse_panic"}
    /\ handler' = "signalled"
    /\ UNCHANGED <<pc, source, tokens, start, current, had_cmd, via, ptokens, result, cwd,
                   histfile, effects, ret, answers, history, children, stage_i, lock, eof>>

\* the mutant of HandlerLock: the handler does not wait for the lock
HandlerLock_ignores_lock ==
    /\ handler = "signalled"
    /\ pc \notin {"exited", "scan_panic", "parse_panic"}
    /\ lock' = "handler"
    /\ handler' = "locked"
    /\ UNCHANGED <<pc, source, tokens, start, current, had_cmd, via, ptokens, result, cwd,
                   histfile, effects, ret, answers, history, children, stage_i, eof>>

\* the handler: history_clone.lock() returns once the lock is free
HandlerLock ==
    /\ handler = "signalled"
    /\ pc \notin {"exited", "scan_panic", "parse_panic"}
    /\ lock = "none"
    /\ lock' = "handler"
    /\ handler' = "locked"
    /\ UNCHANGED <<pc, source, tokens, start, current, had_cmd, via, ptokens, result, cwd,
                   histfile, effects, ret, answers, history, children, stage_i, eof>>

\* the handler: history.save() with the lock held, then the guard is dropped
HandlerSave ==
    /\ handler = "locked"
    /\ pc \notin {"exited", "scan_panic", "parse_panic"}
    /\ \E status \in {"ok", "nosave"} :
          \E env \in {save(Env(cwd, histfile, effects), history,
                           OsAnswer(status, 0, <<>>, <<>>))} :
              /\ histfile' = env.histfile
              /\ effects' = env.effects
    /\ lock' = "none"
    /\ handler' = "saved"
    /\ UNCHANGED <<pc, source, tokens, start, current, had_cmd, via, ptokens, result, cwd,
                   ret, answers, history, children, stage_i, eof>>

\* the handler: process::exit(0) ends the process, wherever Shell::eval is
HandlerExit ==
    /\ handler = "saved"
    /\ pc \notin {"exited", "scan_panic", "parse_panic"}
    /\ pc' = "exited"
    /\ handler' = "exited"
    /\ UNCHANGED <<source, tokens, start, current, had_cmd, via, ptokens, result, cwd,
                   histfile, effects, ret, answers, history, children, stage_i, lock, eof>>

\* the scanner alone, on lines of ScanPieces
NextScan ==
    \/ ReadLine(ScanLines)
    \/ ScanToken
    \/ ScanEnd

SpecScan == Init /\ [][NextScan]_vars

\* the scanner alone, on lines of a long flag and its value
NextValue ==
    \/ ReadLine(ValueLines)
    \/ ScanToken
    \/ ScanEnd

SpecValue == Init /\ [][NextValue]_vars

\* a Pipeline of two or more commands, built by hand or scanned and parsed
\* from a line, and executed step by step
NextPipe ==
    \/ BuildCommand(LongPipelines)
    \/ ReadLine(PipeLines)
    \/ ScanToken
    \/ ScanEnd
    \/ ParseScanned
    \/ BeginPipeline
    \/ SpawnStage
    \/ WaitLast
    \/ ChildExits(ExitCodes)

SpecPipe == Init /\ [][NextPipe]_vars

\* a Pipeline of two or more commands built by hand and executed by the
\* inherent Pipeline::execute
NextRelay ==
    \/ BuildCommand(LongPipelines)
    \/ BeginRelay
    \/ RelayStage({1}, Captures)
    \/ ChildExits({1})

SpecRelay == Init /\ [][NextRelay]_vars

\* the read-eval loop, and standard input reaching its end at any point
NextEof ==
    \/ ReadLine(LoopLines)
    \/ ReadEof
    \/ CloseInput
    \/ ScanToken
    \/ ScanEnd
    \/ ParseScanned
    \/ ReportParseError
    \/ Execute({1}, {<<>>})
    \/ AppendHistory
    \/ Prompt
    \/ Exit(LoopLines)

\* the steps the thread of Shell::eval takes by itself, those of scan_tokens'
\* loop apart: a read is not among them before the end of input, since the
\* line is the user's to give
LoopStep ==
    \/ ReadEof
    \/ ScanEnd
    \/ ParseScanned
    \/ ReportParseError
    \/ Execute({1}, {<<>>})
    \/ AppendHistory
    \/ Prompt

\* ScanToken can be taken: scan_token answers for every character, and moves
\* current or panics
ScanTokenEnabled == pc = "scan" /\ ~is_at_end(tokenizer)

\* WF_vars(ScanToken), with ScanTokenEnabled for ENABLED <<ScanToken>>_vars
ScanTokenFair == []<>(~ScanTokenEnabled) \/ []<><<ScanToken>>_vars

\* the thread of the loop goes on for as long as it has a step to take
SpecEof == Init /\ [][NextEof]_vars /\ WF_vars(LoopStep) /\ ScanTokenFair

\* the read-eval loop of Shell::eval and the interrupt handler of Shell::new,
\* each on its thread, a Pipeline being executed step by step
NextIntr ==
    \/ ReadLine(IntrLines)
    \/ ScanToken
    \/ ScanEnd
    \/ ParseScanned
    \/ ReportParseError
    \/ ExecuteShort({1}, {<<>>})
    \/ BeginPipeline
    \/ SpawnStage
    \/ WaitLast
    \/ ChildExits({1})
    \/ AcquireHistory
    \/ AppendLocked
    \/ ReleaseHistory
    \/ Prompt
    \/ Exit(IntrLines)
    \/ Interrupt
    \/ HandlerLock
    \/ HandlerSave
    \/ HandlerExit

SpecIntr == Init /\ [][NextIntr]_vars

\* a line scanned, parsed and executed, or tokens parsed directly and executed
Next ==
    \/ ReadLine(Lines)
    \/ ScanToken
    \/ ScanEnd
    \/ ParseScanned
    \/ ParseDirect
    \/ Execute({1}, {<<>>})

Spec == Init /\ [][Next]_vars

\* a command built by hand, or scanned and parsed from a line of a command
\* name, arguments and flags, and executed
NextExec ==
    \/ BuildCommand(Commands)
    \/ ReadLine(ArgLines)
    \/ ScanToken
    \/ ScanEnd
    \/ ParseScanned
    \/ Execute(ExitCodes, Captures)

SpecExec == Init /\ [][NextExec]_vars

\* a command that is not a Pipeline built by hand and executed, the history
\* file being absent, empty or holding entries
NextHist ==
    \/ BuildCommand(StageCommands)
    \/ Execute(ExitCodes, Captures)

SpecHist == InitHist /\ [][NextHist]_vars

\* the read-eval loop of Shell::eval
NextLoop ==
    \/ ReadLine(LoopLines)
    \/ ScanToken
    \/ ScanEnd
    \/ ParseScanned
    \/ ReportParseError
    \/ Execute({1}, {<<>>})
    \/ AppendHistory
    \/ Prompt
    \/ Exit(LoopLines)

SpecLoop == Init /\ [][NextLoop]_vars

(***************************************************************************)
(* What the claims speak of: the stages of a token sequence.               *)
(***************************************************************************)
\* the token sequence without its closing Eof token
Body(toks) ==
    IF toks # <<>> /\ toks[Len(toks)].kind = "Eof" THEN SubSeq(toks, 1, Len(toks) - 1) ELSE toks

\* tokens i and j lie in the same stage: no Pipe from one to the other
SameStage(toks, i, j) == \A k \in i..j : toks[k].kind # "Pipe"

IsWord(token) == token.kind \in {"Cmd", "Arg"}

IsFlagToken(token) == token.kind \in {"Flag", "LongFlag", "LongFlagWithValue"}

\* the number of Pipe tokens
PipeCount(toks) == Cardinality({i \in 1..Len(toks) : toks[i].kind = "Pipe"})

\* the index of the j-th Pipe token; 0 for j = 0 and Len + 1 past the last one
PipeIndex(toks, j) ==
    IF j = 0 THEN 0
    ELSE IF j > PipeCount(toks) THEN Len(toks) + 1
    ELSE CHOOSE i \in 1..Len(toks) :
            /\ toks[i].kind = "Pipe"
            /\ Cardinality({h \in 1..i : toks[h].kind = "Pipe"}) = j

\* the tokens strictly between the (j-1)-th and the j-th Pipe
StageTokens(toks, j) == SubSeq(toks, PipeIndex(toks, j - 1) + 1, PipeIndex(toks, j) - 1)

\* the leading token of stage j: the one after the (j-1)-th Pipe
LeadingToken(toks, j) == toks[PipeIndex(toks, j - 1) + 1]

IsArgToken(token) == token.kind = "Arg"

\* the lexemes of the Arg tokens of a stage, in order
ArgLexemes(stage) ==
    LET picked == SelectSeq(stage, IsArgToken)
    IN [i \in 1..Len(picked) |-> picked[i].lexeme]

\* the flag a flag token stands for
FlagOfToken(token) ==
    CASE token.kind = "Flag" -> Flag(token.lexeme, NoString, NoString)
      [] token.kind = "LongFlag" -> Flag(NoString, token.lexeme, NoString)
      [] OTHER -> Flag(NoString, split_left(token.lexeme), split_right(token.lexeme))

\* the flags of the flag tokens of a stage, in order
FlagsOf(stage) ==
    LET picked == SelectSeq(stage, IsFlagToken)
    IN [i \in 1..Len(picked) |-> FlagOfToken(picked[i])]

\* the variant a command name selects
VariantOf(name) ==
    CASE name = <<"c","d">> -> "cd"
      [] name = <<"p","w","d">> -> "pwd"
      [] name = <<"h","i","s","t","o","r","y">> -> "history"
      [] OTHER -> "system"

\* parse has returned or aborted
AfterParse == pc \in {"parsed", "parse_panic", "done"}

(***************************************************************************)
(* C1 (SpecScan)                                                           *)
(***************************************************************************)
\* C1: when scan completes, the token sequence ends with an Eof token whose
\* lexeme is empty, Eof occurs at no other position, and no other token has an
\* empty lexeme.
C1_EofLastOnly ==
    pc = "scanned" =>
        /\ Len(tokens) >= 1
        /\ tokens[Len(tokens)] = Token("Eof", <<>>)
        /\ \A i \in 1..(Len(tokens) - 1) :
              tokens[i].kind # "Eof" /\ tokens[i].lexeme # <<>>

\* a completed scan of a line with a form feed, whose text trims to nothing,
\* after two tokens
C1_Witness ==
    /\ pc = "scanned"
    /\ Len(tokens) = 3
    /\ source[Len(source)] = "\f"

(***************************************************************************)
(* C2 (SpecScan)                                                           *)
(***************************************************************************)
\* C2: scan is total: on every line, multi-byte characters included, it
\* returns a token sequence and never aborts.
C2_ScanTotal == pc # "scan_panic"

(***************************************************************************)
(* C3 (SpecScan)                                                           *)
(***************************************************************************)
\* C3 as claimed: in every stage that holds a word, the first token of the
\* stage, and only that token, is Command-name.
C3_FirstTokenIsCmd ==
    pc = "scanned" =>
        \A i \in 1..Len(Body(tokens)) :
            IsWord(tokens[i]) =>
                (tokens[i].kind = "Cmd" <=> (i = 1 \/ tokens[i - 1].kind = "Pipe"))

\* C3 as amended: in every stage at most one token is Command-name, and it is
\* the first word token of the stage: a word token that follows another word
\* token of its stage is Positional-argument, whatever flags, '<', '>' or '&'
\* lie between, and a Command-name has no word token before it in its stage;
\* on a line without form feed the first word token of each stage is
\* Command-name.
C3_FirstWordIsCmd ==
    pc = "scanned" =>
        /\ \A i \in 1..Len(Body(tokens)) : \A j \in (i + 1)..Len(Body(tokens)) :
              (IsWord(tokens[i]) /\ IsWord(tokens[j]) /\ SameStage(tokens, i, j))
                  => tokens[j].kind = "Arg"
        /\ (\A k \in 1..Len(source) : source[k] # "\f") =>
              \A j \in 1..Len(Body(tokens)) :
                  (IsWord(tokens[j]) /\ \A i \in 1..(j - 1) :
                        SameStage(tokens, i, j) => ~IsWord(tokens[i]))
                      => tokens[j].kind = "Cmd"

\* a stage that begins with '<', then its Command-name, then an argument
C3_Witness ==
    /\ pc = "scanned"
    /\ Len(tokens) = 4
    /\ tokens[1].kind = "InputRedir"
    /\ tokens[2].kind = "Cmd"
    /\ tokens[3].kind = "Arg"

(***************************************************************************)
(* C4 (Spec)                                                               *)
(***************************************************************************)
\* C4: on every token sequence scan produces, parse returns a Command or a
\* ParseError and never aborts.
C4_ResolveNeverAborts == ~(via = "scan" /\ pc = "parse_panic")

(***************************************************************************)
(* C5 (Spec)                                                               *)
(***************************************************************************)
\* C5: when parse succeeds on tokens with k >= 1 Pipe tokens, the result is a
\* Pipeline of k + 1 stages, stage j the resolution of the tokens strictly
\* between the (j-1)-th and the j-th Pipe; with no Pipe token the result is
\* the single resolved command, not a Pipeline.
C5_PipelineStages ==
    (AfterParse /\ result.kind = "Ok") =>
        LET k == PipeCount(ptokens)
        IN IF k = 0
           THEN /\ result.cmd.variant # "pipeline"
                /\ result.cmd.name = ptokens[1].lexeme
                /\ get_args(result.cmd) = ArgLexemes(ptokens)
           ELSE /\ result.cmd.variant = "pipeline"
                /\ Len(result.cmd.commands) = k + 1
                /\ \A j \in 1..(k + 1) :
                      /\ result.cmd.commands[j].variant # "pipeline"
                      /\ result.cmd.commands[j].name = LeadingToken(ptokens, j).lexeme
                      /\ get_args(result.cmd.commands[j]) = ArgLexemes(StageTokens(ptokens, j))
                      /\ get_flags(result.cmd.commands[j]) = FlagsOf(StageTokens(ptokens, j))

\* a line with one Pipe resolved to a Pipeline of two different commands
C5_Witness ==
    /\ pc = "parsed"
    /\ via = "scan"
    /\ result.kind = "Ok"
    /\ PipeCount(ptokens) = 1
    /\ Len(result.cmd.commands) = 2
    /\ result.cmd.commands[1].name # result.cmd.commands[2].name

(***************************************************************************)
(* C6 (Spec)                                                               *)
(***************************************************************************)
\* C6: for a line of one stage whose first token is Command-name n, parse
\* yields the variant n selects, with the stage's Positional-argument lexemes
\* as its arguments and the stage's flag tokens as its flags, in order, and
\* no error.
C6_StageResolved ==
    (AfterParse /\ via = "scan" /\ PipeCount(ptokens) = 0 /\ ptokens[1].kind = "Cmd") =>
        /\ result.kind = "Ok"
        /\ result.cmd.variant = VariantOf(ptokens[1].lexeme)
        /\ get_args(result.cmd) = ArgLexemes(ptokens)
        /\ get_flags(result.cmd) = FlagsOf(ptokens)

(***************************************************************************)
(* C7 (Spec)                                                               *)
(***************************************************************************)
\* C7: if the leading token of some stage is not Command-name, parse fails
\* with 'Expected command, got: ' and the lexeme of the leading token of the
\* leftmost such stage.
C7_ExpectedCommand ==
    (AfterParse /\ via = "scan") =>
        LET bad == {j \in 1..(PipeCount(ptokens) + 1) : LeadingToken(ptokens, j).kind # "Cmd"}
        IN bad # {} =>
              LET j == CHOOSE j \in bad : \A h \in bad : j <= h
              IN result = Err("Expected command, got: ", LeadingToken(ptokens, j).lexeme)

(***************************************************************************)
(* C8 (Spec)                                                               *)
(***************************************************************************)
WhitespaceOnly(line) == \A i \in 1..Len(line) : line[i] \in {" ", "\r", "\t", "\n"}

NoCommandProvided == Err("No command provided", <<>>)

\* C8 as claimed: parse fails with 'No command provided' exactly on the empty
\* token sequence, and so does scan then parse on an empty or whitespace-only
\* line.
C8_NoCommandOnBlankLine ==
    AfterParse =>
        /\ result = NoCommandProvided <=> ptokens = <<>>
        /\ (via = "scan" /\ WhitespaceOnly(source)) => result = NoCommandProvided

\* C8 as amended: parse fails with 'No command provided' exactly on the empty
\* token sequence; an empty or whitespace-only line scans to the one token Eof,
\* which is not empty, and scan then parse fails with 'Expected command, got: '
\* and the empty lexeme.
C8_NoCommandOnlyOnNoTokens ==
    AfterParse =>
        /\ result = NoCommandProvided <=> ptokens = <<>>
        /\ (via = "scan" /\ WhitespaceOnly(source)) =>
              /\ ptokens = <<Token("Eof", <<>>)>>
              /\ result = Err("Expected command, got: ", <<>>)

\* a line of blanks, scanned and parsed
C8_Witness ==
    /\ pc = "parsed"
    /\ via = "scan"
    /\ Len(source) >= 2
    /\ WhitespaceOnly(source)

(***************************************************************************)
(* C9 (Spec)                                                               *)
(***************************************************************************)
\* the command's flags hold --help or -h, with or without a value
HasHelpFlag(cmd) ==
    \E i \in 1..Len(get_flags(cmd)) :
        get_flags(cmd)[i].long = HELP \/ get_flags(cmd)[i].short = H

\* C9: when --help or -h is among the command's flags, with or without a
\* value, execute emits the help block and returns success and nothing else
\* happens: the working directory is unchanged, the history file is neither
\* loaded nor saved, no process is spawned.
C9_HelpFirst ==
    (pc = "done" /\ HasHelpFlag(result.cmd)) =>
        /\ ret = Success
        /\ effects = <<Effect("help", result.cmd.name, <<>>)>>
        /\ cwd = InitCwd
        /\ histfile = InitHistfile

\* a command executed whose --help flag carries a value
C9_Witness ==
    /\ pc = "done"
    /\ \E i \in 1..Len(get_flags(result.cmd)) :
          get_flags(result.cmd)[i].long = HELP /\ get_flags(result.cmd)[i].value # NoString

(***************************************************************************)
(* C10 (Spec)                                                              *)
(***************************************************************************)
\* the token is --help or -h, with or without a value
IsHelpToken(token) ==
    \/ token = Token("Flag", H)
    \/ token = Token("LongFlag", HELP)
    \/ token.kind = "LongFlagWithValue" /\ starts_with(token.lexeme, HELP \o <<"=">>)

\* C10: a line whose stages all begin with a command name and in which a
\* command carries --help or -h, once scanned, parsed and executed, gives the
\* help block and success, never an error or an abort.
C10_HelpEveryVariant ==
    ( /\ via = "scan"
      /\ pc \in {"parse_panic", "done"}
      /\ \A j \in 1..(PipeCount(ptokens) + 1) : LeadingToken(ptokens, j).kind = "Cmd"
      /\ \E i \in 1..Len(ptokens) : IsHelpToken(ptokens[i]) )
    => ( /\ pc = "done"
         /\ ret = Success
         /\ \E i \in 1..Len(effects) : effects[i].op = "help" )

(***************************************************************************)
(* What the claims speak of: the execution of a command.                   *)
(***************************************************************************)
\* execute has returned from a Pipeline of two or more stages
PipelineDone ==
    pc = "done" /\ result.cmd.variant = "pipeline" /\ Len(result.cmd.commands) >= 2

IsBuiltin(cmd) == cmd.variant \in {"cd", "pwd", "history"}

\* the number of processes execute has spawned
Spawned == Cardinality({i \in 1..Len(effects) : effects[i].op = "spawn"})

\* execute has returned from a command of the variant that has no help flag
VariantDone(variant) ==
    /\ pc = "done"
    /\ result.cmd.variant = variant
    /\ ~(get_flag_is_some(result.cmd, HELP) \/ get_flag_is_some(result.cmd, H))

(***************************************************************************)
(* C11 (SpecExec)                                                          *)
(***************************************************************************)
\* C11: executing a Pipeline of two or more stages one of which, at any
\* position, is cd, pwd or history returns the error 'Built-in commands
\* cannot be used in pipes', and no process has been spawned.
C11_BuiltinInPipe ==
    (PipelineDone /\ \E i \in 1..Len(result.cmd.commands) : IsBuiltin(result.cmd.commands[i]))
        => /\ ret = Failure("Built-in commands cannot be used in pipes")
           /\ Spawned = 0

\* a Pipeline of three stages executed, the last one alone a built-in, whose
\* processes the operating system would all have started
C11_Witness ==
    /\ PipelineDone
    /\ Len(result.cmd.commands) = 3
    /\ ~IsBuiltin(result.cmd.commands[1])
    /\ ~IsBuiltin(result.cmd.commands[2])
    /\ IsBuiltin(result.cmd.commands[3])
    /\ \A i \in 1..3 : answers[i].status = "ok"

(***************************************************************************)
(* C12 (SpecExec)                                                          *)
(***************************************************************************)
\* the operating system's answer for the last stage of the Pipeline
TerminalAnswer == answers[Len(result.cmd.commands)]

\* C12: executing a Pipeline of two or more stages returns success only if
\* the process of the last stage was spawned and exited with status zero; if
\* it cannot be spawned or exits non-zero, execute returns an error.
C12_TerminalDecides ==
    PipelineDone =>
        /\ ret.ok => /\ TerminalAnswer.status = "ok"
                     /\ Spawned = Len(result.cmd.commands)
                     /\ effects[Len(effects) - 1].op = "spawn"
                     /\ effects[Len(effects) - 1].a =
                            get_name(result.cmd.commands[Len(result.cmd.commands)])
        /\ TerminalAnswer.status \in {"fail", "nonzero"} => ~ret.ok

\* a Pipeline of three stages whose processes were all spawned and whose last
\* process alone exited non-zero
C12_Witness ==
    /\ PipelineDone
    /\ Len(result.cmd.commands) = 3
    /\ Spawned = 3
    /\ answers[1].status = "ok"
    /\ answers[2].status = "ok"
    /\ answers[3].status = "nonzero"

(***************************************************************************)
(* C13 (SpecExec)                                                          *)
(***************************************************************************)
\* execute has returned from a Pipeline of two or more external commands
\* whose processes were all spawned
AllSpawned ==
    /\ PipelineDone
    /\ \A i \in 1..Len(result.cmd.commands) :
          ~IsBuiltin(result.cmd.commands[i]) /\ answers[i].status # "fail"

\* the stages whose process exited non-zero
FailedStages == {i \in 1..Len(result.cmd.commands) : answers[i].status = "nonzero"}

\* C13 as claimed: a non-zero exit status of any stage, intermediate or
\* terminal, makes execute return an error that names the failing status.
C13_AnyStageFails ==
    (AllSpawned /\ FailedStages # {}) =>
        \E i \in FailedStages :
            ret = FailureWith("Pipeline failed with status", answers[i].code)

\* C13 as amended: a non-zero exit status of the terminal stage makes execute
\* return an error that names that status; the exit status of an intermediate
\* stage is never read, and when the terminal stage exits zero execute
\* returns success whatever the statuses of the stages before it.
C13_TerminalStageFails ==
    AllSpawned =>
        /\ TerminalAnswer.status = "nonzero" =>
              ret = FailureWith("Pipeline failed with status", TerminalAnswer.code)
        /\ TerminalAnswer.status = "ok" => ret = Success
        /\ \A i \in 1..Len(effects) :
              effects[i].op = "wait" =>
                  /\ i = Len(effects)
                  /\ effects[i].a = get_name(result.cmd.commands[Len(result.cmd.commands)])

\* a Pipeline of three stages, all spawned, whose second process exited
\* non-zero while the last one exited zero
C13_Witness ==
    /\ AllSpawned
    /\ Len(result.cmd.commands) = 3
    /\ answers[1].status = "ok"
    /\ answers[2].status = "nonzero"
    /\ answers[3].status = "ok"

(***************************************************************************)
(* C14 (SpecExec)                                                          *)
(***************************************************************************)
\* the identity of a flag: its short spelling, or else its long one
IdentityOf(f) == IF f.short # NoString THEN f.short ELSE f.long

\* the flag as text: its identity, then '=' and the value when there is one
Rendered(f) ==
    IF f.value = NoString THEN IdentityOf(f) ELSE IdentityOf(f) \o <<"=">> \o f.value

\* execute has returned from an external command without help flag whose
\* process was spawned
SystemSpawned == VariantDone("system") /\ answers[1].status # "fail"

\* C14: an external command without help flag is invoked as the program
\* `name` with its positional arguments in order followed by its flags in
\* order, each flag as its identity, or identity, '=', value; the argument of
\* a flag that was parsed from a Long-flag-with-value token is that token's
\* lexeme.
C14_ProcessArguments ==
    SystemSpawned =>
        LET cmd == result.cmd
            nargs == Len(cmd.args)
            flagtoks == SelectSeq(Body(ptokens), IsFlagToken)
        IN /\ effects[1].op = "spawn"
           /\ effects[1].a = cmd.name
           /\ Len(effects[1].b) = nargs + Len(cmd.flags)
           /\ \A i \in 1..nargs : effects[1].b[i] = cmd.args[i]
           /\ \A j \in 1..Len(cmd.flags) : effects[1].b[nargs + j] = Rendered(cmd.flags[j])
           /\ via = "scan" =>
                 \A j \in 1..Len(flagtoks) :
                     flagtoks[j].kind = "LongFlagWithValue" =>
                         effects[1].b[nargs + j] = flagtoks[j].lexeme

\* a line executed whose flag with a value stands before its argument
C14_Witness ==
    /\ SystemSpawned
    /\ via = "scan"
    /\ Len(ptokens) = 4
    /\ ptokens[2].kind = "LongFlagWithValue"
    /\ ptokens[3].kind = "Arg"

(***************************************************************************)
(* C15 (SpecExec)                                                          *)
(***************************************************************************)
\* execute has written the bytes to the parent's stream
Relayed(stream, bytes) ==
    \E i \in 1..Len(effects) : effects[i] = Effect(stream, bytes, <<>>)

C16_NoPathProvided ==
    (VariantDone("cd") /\ Len(result.cmd.args) = 0) =>
        /\ ret = Failure("No path provided")
        /\ cwd = InitCwd
        /\ effects = <<>>

\* a cd without argument, with a flag that is not the help flag, executed
\* where the operating system would have answered without error
C16_Witness ==
    /\ VariantDone("cd")
    /\ Len(result.cmd.args) = 0
    /\ Len(result.cmd.flags) = 1
    /\ answers[1].status = "ok"

(***************************************************************************)
(* C17 (SpecExec)                                                          *)
(***************************************************************************)
\* C17: cd without help flag and with the target path p, its first argument:
\* when the operating system changes the directory, execute returns success
\* and the working directory is p; when it fails, execute returns an error
\* and the working directory is the one before the call.
C17_ChangeDirectory ==
    (VariantDone("cd") /\ Len(result.cmd.args) >= 1) =>
        /\ answers[1].status = "ok" => ret = Success /\ cwd = result.cmd.args[1]
        /\ answers[1].status = "fail" => ~ret.ok /\ cwd = InitCwd

\* a cd with two different arguments that has changed the directory
C17_Witness ==
    /\ VariantDone("cd")
    /\ Len(result.cmd.args) = 2
    /\ result.cmd.args[1] # result.cmd.args[2]
    /\ result.cmd.args[1] # InitCwd
    /\ answers[1].status = "ok"

(***************************************************************************)
(* C18 (SpecHist)                                                          *)
(***************************************************************************)
HasClearFlag(cmd) == get_flag_is_some(cmd, CLEAR) \/ get_flag_is_some(cmd, C)

IsPrint(eff) == eff.op = "print"

\* the lines execute has printed, in order
Printed(effs) ==
    LET picked == SelectSeq(effs, IsPrint)
    IN [i \in 1..Len(picked) |-> picked[i].a]

\* the entries of a history file, in file order
Entries(file) == IF file = NoFile THEN <<>> ELSE file

Reverse(q) == [i \in 1..Len(q) |-> q[Len(q) + 1 - i]]

\* the step is the execute of a history command without help flag
HistoryStep ==
    /\ pc = "parsed"
    /\ pc' = "done"
    /\ result.cmd.variant = "history"
    /\ ~(get_flag_is_some(result.cmd, HELP) \/ get_flag_is_some(result.cmd, H))

\* C18: the history command without clear flag prints every entry of the
\* history file once, the last line of the file first and the first line
\* last, and does not modify the file.
C18_PrintsNewestFirst ==
    [][ (HistoryStep /\ ~HasClearFlag(result.cmd)) =>
            /\ histfile' = histfile
            /\ ret'.ok => Printed(effects') = Reverse(Entries(histfile)) ]_vars

\* a history command without flags has printed the two entries of the file
C18_Witness ==
    /\ VariantDone("history")
    /\ result.cmd.flags = <<>>
    /\ histfile = InitHistfile
    /\ Len(Printed(effects)) = 2
    /\ ret = Success

(***************************************************************************)
(* C19 (SpecHist)                                                          *)
(***************************************************************************)
\* what a history command without flags, executed next with the history file
\* as given and readable, prints
NextHistoryPrints(file) ==
    Printed(execute(Command("history", <<"h","i","s","t","o","r","y">>),
                    Env(cwd, file, <<>>), <<OsAnswer("ok", 0, <<>>, <<>>)>>).effects)

C20_AppendIffParsed ==
    [][ /\ history' # history =>
              /\ pc = "done" /\ pc' = "appended"
              /\ result.kind = "Ok"
              /\ ret # NoReturn
              /\ history' = Append(history, to_string(result.cmd))
        /\ (pc # "read" /\ pc' = "read") =>
              /\ result.kind \in {"Ok", "Err"}
              /\ result.kind = "Ok" <=> pc = "appended"
              /\ result.kind = "Ok" => history[Len(history)] = to_string(result.cmd)
        /\ pc' = "appended" => pc = "done"
        /\ pc' = "done" => pc = "parsed" /\ history' = history
        /\ pc' = "exited" => history' = history ]_vars

\* the second line's entry is appended, after the execute of its command
\* has returned an error
C20_Witness ==
    /\ pc = "appended"
    /\ Len(history) = 2
    /\ ~ret.ok
    /\ history[2] = <<"c","d"," ">>

(***************************************************************************)
(* C21 (Spec)                                                              *)
(***************************************************************************)
\* C21: for every Command that parse returns for a scanned line, its text
\* (name, a space, the arguments joined by spaces, then the flag identities
\* joined by spaces), scanned and parsed again, yields a Command of the same
\* variant with the same name and the same arguments in the same order.
C21_RoundTrip ==
    (pc = "parsed" /\ via = "scan" /\ result.kind = "Ok") =>
        LET again == scan_and_parse(to_string(result.cmd))
        IN /\ again.kind = "Ok"
           /\ again.cmd.variant = result.cmd.variant
           /\ get_name(again.cmd) = get_name(result.cmd)
           /\ get_args(again.cmd) = get_args(result.cmd)

(***************************************************************************)
(* C22 (SpecValue)                                                         *)
(***************************************************************************)
Separators == {" ", "\t", "\r", "\n"}

RECURSIVE ValueEnd(_, _, _)
\* the index of the last character of the value that begins at s[i]: the
\* value extends to the next space outside double quotes
ValueEnd(s, i, quoted) ==
    IF i > Len(s) THEN Len(s)
    ELSE IF s[i] = " " /\ ~quoted THEN i - 1
    ELSE ValueEnd(s, i + 1, IF s[i] = "\"" THEN ~quoted ELSE quoted)

RECURSIVE Unpadded(_)
\* the text without the separators at its ends
Unpadded(s) ==
    IF s # <<>> /\ Head(s) \in Separators THEN Unpadded(Tail(s))
    ELSE IF s # <<>> /\ s[Len(s)] \in Separators THEN Unpadded(SubSeq(s, 1, Len(s) - 1))
    ELSE s

Quotes(s) == Cardinality({i \in 1..Len(s) : s[i] = "\""})

\* the text is free of double quotes, or enclosed in one pair of them
PlainOrEnclosed(s) ==
    \/ Quotes(s) = 0
    \/ Quotes(s) = 2 /\ s[1] = "\"" /\ s[Len(s)] = "\""

\* the text without its enclosing double quotes
Unquoted(s) == IF Quotes(s) = 2 THEN SubSeq(s, 2, Len(s) - 1) ELSE s

LONG_F == <<"-","-","f","=">>

\* C22: a line that begins with --f=value scans to one Long-flag-with-value
\* token first, and to no other token when nothing but separators follows
\* the value; its lexeme is --f, '=', and the value: the text up to the
\* next space outside double quotes, without separators (space, tab,
\* carriage return, newline) at its ends and without its enclosing double
\* quotes, also when the line ends with a newline.  (A value whose double
\* quotes are not one enclosing pair is left open.)
C22_FlagValue ==
    (pc = "scanned" /\ starts_with(source, LONG_F)) =>
        LET end == ValueEnd(source, 5, FALSE)
            raw == Unpadded(SubSeq(source, 5, end))
            rest == Unpadded(SubSeq(source, end + 1, Len(source)))
        IN PlainOrEnclosed(raw) =>
              /\ tokens[1] = Token("LongFlagWithValue", LONG_F \o Unquoted(raw))
              /\ rest = <<>> => tokens = <<tokens[1], Token("Eof", <<>>)>>

(***************************************************************************)
(* C23 (SpecScan)                                                          *)
(***************************************************************************)
\* a character of a word: alphanumeric, '_', '/' or '.'
WordChar(c) == is_ascii_alphanumeric(c) \/ c \in {"_", "/", "."}

\* C23 as claimed: when scan completes, the lexeme of every Command-name and
\* Positional-argument token consists only of alphanumeric characters, '_',
\* '/' and '.'.
C23_WordCharsOnly ==
    pc = "scanned" =>
        \A i \in 1..Len(tokens) :
            IsWord(tokens[i]) =>
                \A k \in 1..Len(tokens[i].lexeme) : WordChar(tokens[i].lexeme[k])

\* C23 as amended: when scan completes, in the lexeme of every Command-name
\* and Positional-argument token every character after the first is
\* alphanumeric, '_', '/' or '.'; the first character is any character that
\* is not whitespace and not '-', '|', '<', '>' or '&'.
C23_WordCharsAfterFirst ==
    pc = "scanned" =>
        \A i \in 1..Len(tokens) :
            IsWord(tokens[i]) =>
                /\ tokens[i].lexeme # <<>>
                /\ ~is_whitespace(tokens[i].lexeme[1])
                /\ tokens[i].lexeme[1] \notin {"-", "|", "<", ">", "&"}
                /\ \A k \in 2..Len(tokens[i].lexeme) : WordChar(tokens[i].lexeme[k])

\* a completed scan with a Command-name that begins with '=' and a
\* Positional-argument that begins with a double quote
C23_Witness ==
    /\ pc = "scanned"
    /\ Len(tokens) = 3
    /\ tokens[1] = Token("Cmd", <<"=", "x">>)
    /\ tokens[2].kind = "Arg"
    /\ tokens[2].lexeme[1] = "\""

(***************************************************************************)
(* C24 (SpecLoop)                                                          *)
(***************************************************************************)
\* C24: in the read-eval loop no line other than exit and quit ends the loop:
\* whether the line fails to parse, parses and fails to execute, or succeeds,
\* the loop does not abort, the error, if any, has been printed when the line
\* is done with, and the loop comes to its next prompt.
C24_LoopContinues ==
    /\ pc \notin {"scan_panic", "parse_panic"}
    /\ pc = "failed" =>
          effects[Len(effects)] = Effect("print error", result.msg, result.arg)
    /\ (pc = "appended" /\ ~ret.ok) => effects[Len(effects)].op = "print error"
    /\ pc \in {"failed", "appended"} => ENABLED Prompt

(***************************************************************************)
(* C25 (SpecPipe)                                                          *)
(***************************************************************************)
\* the processes of the Pipeline that are alive: spawned and not yet exited
Alive == {i \in 1..Len(children) : children[i].state = "running"}

\* the processes of the Pipeline that have been waited for
Reaped == {i \in 1..Len(children) : children[i].state = "reaped"}

C26_AllReaped ==
    (pc = "done" /\ result.cmd.variant = "pipeline") =>
        \A i \in 1..Len(children) : children[i].state = "reaped"

(***************************************************************************)
(* C27 (SpecRelay)                                                         *)
(***************************************************************************)
\* the processes spawned for the stage
Instances(s) == {k \in 1..Len(children) : children[k].stage = s}

\* the process of the stage whose status was tested and whose output was read
Checked(s) == CHOOSE k \in Instances(s) : children[k].state = "reaped"

\* C27: in the inherent Pipeline::execute the program of each stage is
\* spawned once, and for every stage after the first the process that is
\* waited for, whose status is tested and whose output is read, is the one
\* that was given the output of the stage before as its standard input.
C27_FedProcessIsChecked ==
    pc \in {"relaying", "done"} =>
        \A s \in 1..Len(result.cmd.commands) :
            /\ Cardinality(Instances(s)) <= 1
            /\ \A k \in Instances(s) :
                  (s > 1 /\ children[k].state = "reaped") =>
                      children[k].fed = children[Checked(s - 1)].out

(***************************************************************************)
(* C28, under SpecIntr.                                                    *)
(***************************************************************************)

\* the main loop has not ended
Looping == pc \notin {"exited", "scan_panic", "parse_panic"}

\* the step in which the handler saves the History
HandlerSaves == handler = "locked" /\ handler' = "saved"

C29_LockDiscipline ==
    /\ [](/\ pc \in {"locked", "pushed"} => lock = "main"
          /\ (lock = "main" /\ Looping) => pc \in {"locked", "pushed"}
          /\ lock = "handler" <=> handler = "locked")
    /\ [][/\ history' # history =>
                /\ lock = "main" /\ lock' = "main"
                /\ handler' = handler
                /\ \E entry \in {to_string(result.cmd)} : history' = Append(history, entry)
          /\ lock = "handler" => history' = history
          /\ handler' # handler => history' = history
          /\ HandlerSaves =>
                /\ lock = "handler"
                /\ \/ /\ effects' = Append(effects, Effect("save", <<>>, history))
                      /\ histfile' = history
                   \/ /\ effects' = Append(effects, Effect("save failed", <<>>, <<>>))
                      /\ histfile' = histfile]_vars

\* the handler has saved the one entry appended so far, while the main loop is
\* about to append the entry of the next command
C29_Witness ==
    /\ handler = "saved"
    /\ pc = "done"
    /\ Len(history) = 1
    /\ histfile = history
    /\ effects # <<>>
    /\ effects[Len(effects)] = Effect("save", <<>>, history)
    /\ to_string(result.cmd) # history[1]

(***************************************************************************)
(* C30, under SpecPipe.                                                    *)
(***************************************************************************)

\* C30: every process a pipeline of two or more stages spawns is given the
\* arguments its command is given when it runs alone: the positional arguments
\* of the stage followed by its rendered flags.
C30_StageArguments ==
    (pc \in {"spawning", "done"} /\ result.kind = "Ok" /\ result.cmd.variant = "pipeline") =>
        \A i \in 1..Len(children) :
            children[i].args = system_args(result.cmd.commands[children[i].stage])

(***************************************************************************)
(* C35, under SpecLoop.                                                    *)
(***************************************************************************)

\* the string sub stands somewhere in the string s
Contains(s, sub) ==
    \E k \in 0..(Len(s) - Len(sub)) : SubSeq(s, k + 1, k + Len(sub)) = sub

\* C35: the entry appended to the History for a parsed pipeline of two or more
\* stages contains the name and every positional argument of each stage.
C35_EntryNamesStages ==
    (/\ pc = "appended"
     /\ result.kind = "Ok"
     /\ result.cmd.variant = "pipeline"
     /\ Len(result.cmd.commands) >= 2) =>
        \A i \in 1..Len(result.cmd.commands) :
            /\ Contains(history[Len(history)], get_name(result.cmd.commands[i]))
            /\ \A j \in 1..Len(get_args(result.cmd.commands[i])) :
                  Contains(history[Len(history)], get_args(result.cmd.commands[i])[j])

(***************************************************************************)
(* C34, under SpecEof.                                                     *)
(***************************************************************************)

\* C34: once standard input has reached its end, the read-eval loop ends:
\* Shell::eval returns (or the process has ended).
C34_ReturnsAtEof == eof ~> ~Looping

(***************************************************************************)
(* C33, under SpecLoop.                                                    *)
(***************************************************************************)

\* the entry of a history command that carries a flag (-c or --clear)
IsClearEntry(entry) == starts_with(entry, <<"h","i","s","t","o","r","y"," ","-">>)

\* the step in which exit or quit saves the History, the file being written
ExitSaves ==
    /\ pc = "read"
    /\ pc' = "exited"
    /\ effects' # <<>>
    /\ effects'[Len(effects')].op = "save"

\* the indexes of the entries of clearing commands in the session's History
ClearEntries == {k \in 1..Len(history) : IsClearEntry(history[k])}

\* C33: the save at the end of a session keeps what the file held. The file
\* starts with the entries InitHistfile, and in a session only a history
\* command that clears writes it before the save: when no clear has emptied
\* the file, the save leaves the entries the file held followed by the
\* session's entries; when a clear has emptied it, the save writes back no
\* entry appended before the first clearing command, only later ones.
C33_SavePreserves ==
    [][ExitSaves =>
          /\ histfile = InitHistfile => histfile' = InitHistfile \o history
          /\ (histfile = <<>> /\ ClearEntries # {}) =>
                \E j \in 1..Len(history) :
                    /\ \E k \in ClearEntries : k <= j
                    /\ histfile' = SubSeq(history, j, Len(history))]_vars

(***************************************************************************)
(* C32, under SpecRelay.                                                   *)
(***************************************************************************)

\* C32: no step of the inherent Pipeline::execute, the one on which it returns
\* included, changes the commands of the Pipeline: when it has returned, with
\* success or with an error of any stage, the Pipeline holds the commands it
\* held before the call, in their order.
C32_StagesUnchanged ==
    [][(pc = "relaying" \/ pc' = "relaying") =>
            result'.cmd.commands = result.cmd.commands]_vars

(***************************************************************************)
(* C31, under SpecRelay.                                                   *)
(***************************************************************************)

IsSpawn(eff) == eff.op = "spawn"

\* the programs spawned, in order
Programs(effs) == [i \in 1..Len(SelectSeq(effs, IsSpawn)) |-> SelectSeq(effs, IsSpawn)[i].a]

\* the answers given stage by stage, the programs of the stages not reached
\* exiting with status 0
AllAnswers(oss, n) ==
    [i \in 1..n |-> IF i <= Len(oss) THEN oss[i] ELSE OsAnswer("ok", 0, <<>>, <<>>)]

\* what Command::execute does with the Pipeline and these answers
ByTrait(cmd, oss) ==
    execute(cmd, Env(cwd, histfile, <<>>), AllAnswers(oss, Len(cmd.commands)))

\* C31: when the inherent Pipeline::execute returns, every process having been
\* spawned, Command::execute on the same Pipeline, with the same exit status
\* for the program of each stage, returns success or an error alike and spawns
\* the same programs in the same order.
C31_ExecutorsAgree ==
    [][(/\ pc = "relaying"
        /\ pc' = "done"
        /\ \A i \in 1..Len(answers') : answers'[i].status # "fail") =>
            /\ ByTrait(result.cmd, answers').ret.ok = ret'.ok
            /\ Programs(ByTrait(result.cmd, answers').effects) = Programs(effects')]_vars


====
